---- MODULE Spec2Model ----
(***************************************************************************)
(* Model of the docs-crawler-mcp repository: URL normalisation (utils.ts),  *)
(* the puppeteer WebsiteCrawler with its two-worker PQueue (crawler.ts),    *)
(* the recursive crawler (crawling.ts), the search handlers (tools.ts),     *)
(* the IndexDatabase (indexing, chunking, cosine similarity, singleton)     *)
(* and the Qdrant chunk store (data.ts).                                    *)
(*                                                                          *)
(* URL strings are sequences of tokens.  A token stands for a run of        *)
(* characters that the code never splits:                                   *)
(*   "O" = "http://a.com"   scheme and host of the site                     *)
(*   "E" = ".evil.org"      a continuation of a host name                   *)
(*   "P" = "http://b.org"   scheme and host of another site                 *)
(*   "B" = ":bad"           an invalid port, which makes new URL() throw    *)
(*   "J" = "javascript:"                                                    *)
(*   "/" "#"                themselves;  "x" "y" "f"  plain words           *)
(* String operations of the code (startsWith, replace(/\/$/), split("#"))   *)
(* act on the token sequence exactly as they act on the characters.         *)
(***************************************************************************)
EXTENDS Integers, Sequences, FiniteSets, TLC

VARIABLES
    prog,       \* which program of the repository this behaviour runs
    nUrl,       \* normalizeUrl: the url argument
    nBase,      \* normalizeUrl: the baseUrl argument (its href)
    nOut,       \* normalizeUrl: results of the successive calls
    nPc,        \* normalizeUrl: number of calls made
    baseUrl,    \* WebsiteCrawler.baseUrl, as its href
    visited,    \* WebsiteCrawler.visited
    queue,      \* PQueue: tasks added and not yet started, in FIFO order
    pending,    \* PQueue: tasks started and not yet settled
    job,        \* WebsiteCrawler.job: status, pagesProcessed, errors
    files,      \* output directory: file name -> url of the PageResult in it
    fetchLog,   \* history: [url, depth] of a processPage call -> number of such calls
    cpc,        \* position of crawl(): "constructed", "crawling", "returned"
    startUrl,   \* crawlWebsite: the url argument
    maxDepth,   \* crawlRecursive: the maxDepth argument
    maxPages,   \* crawlRecursive: the maxPages argument
    rVisited,   \* crawlWebsite: the visited set
    pagesCrawled, \* crawlWebsite: pagesCrawled.count
    rStack,     \* the loops over discoveredUrls that are open, outermost first
    rCrawling,  \* the crawlSingleUrl call in progress, or NoCall
    rLog,       \* history: [url, depth] of a crawlSingleUrl call -> number of such calls
    rSkipped,   \* history: [url, depth] that crawlRecursive refused for their depth
    rLinks,     \* history: url -> the set of discoveredUrls that crawlSingleUrl returned for it
    rpc,        \* position of crawlWebsite: "called", "crawling", "returned"
    hArgs,      \* tools.ts handler: the args (url, queries, limit, forceCrawl)
    index,      \* IndexDatabase: query -> distance of every indexed chunk
    websiteDirs, \* urls whose website directory exists (getWebsiteDirectory)
    mkdirs,     \* history: directories the handler created
    crawlJobs,  \* crawlJobs: the jobs the handler created, in order
    metadata,   \* metadata.json files the handler wrote (url, pagesCount)
    indexed,    \* history: output directories given to db.indexDocuments
    searches,   \* history: the db.search calls (query, limit, baseUrl)
    allResults, \* handler: const allResults
    seenDocuments, \* handleSearchWebsite: const seenDocuments
    hOut,       \* what the handler returned or threw
    hpc,        \* position of the handler
    sourceDir,  \* indexDocuments: the files of the source directory, in readdir order
    indexFiles, \* IndexDatabase.indexDir: name of an index file -> its content
    filePos,    \* indexDocuments: place in sourceDir of the file of this turn of the loop
    totalProcessed, \* indexDocuments: let totalProcessed
    embeddings, \* indexDocuments: const embeddings of this turn ("real", "zero" or "none")
    embLog,     \* history: places in sourceDir whose embedding call failed in this run
    runs,       \* history: for each finished run, what it returned and the index after it
    observed,   \* history: what one search read in indexDir, and the write it ran beside
    ipc,        \* position of indexDocuments
    markdown,   \* chunkMarkdownSlidingWindow: the markdown argument
    chunks,     \* chunkMarkdownSlidingWindow: the returned chunks
    vec1,       \* computeCosineSimilarity: the vec1 argument
    vec2,       \* computeCosineSimilarity: the vec2 argument
    cosOut,     \* computeCosineSimilarity: the returned value
    dpc,        \* position of the function of programs 6 and 7
    qArgs,      \* crawlSingleUrl: the url and the markdown extracted from its page
    qDisk,      \* saveContentToDisk: name of a chunk file -> its content
    qAllPoints, \* saveChunksToQdrant: const allPoints
    qPoints,    \* the Qdrant collection: id of a point -> its payload
    qLog,       \* history: for each finished call, what it stored
    qpc,        \* position of crawlSingleUrl / saveChunksToQdrant
    instance,   \* IndexDatabase.instance: Null, or the fields of the object
    indexDir,   \* whether the index directory exists on disk
    callers,    \* getInstance: caller -> where its call is and what it got
    sText,      \* splitIntoChunks: the text argument
    sChunks,    \* splitIntoChunks: the returned chunks
    spc,        \* position of splitIntoChunks
    hLog,       \* history: the calls of the handlers that ended, in order
    browser,    \* WebsiteCrawler.browser: "null", "launched" or "closed"
    openPages,  \* the pages of the browser that are open, by the task that opened them
    tasks,      \* the processUrl tasks: task -> where it is, and its depth
    pJob        \* WebsiteCrawler.job: status and pagesProcessed

normVars == <<nUrl, nBase, nOut, nPc>>

crawlerVars == <<baseUrl, visited, queue, pending, job, files, fetchLog, cpc>>

recVars == <<startUrl, maxDepth, maxPages, rVisited, pagesCrawled, rStack, rCrawling,
             rLog, rSkipped, rLinks, rpc>>

toolVars == <<hArgs, index, websiteDirs, mkdirs, crawlJobs, metadata, indexed, searches,
              allResults, seenDocuments, hOut, hpc>>

idxVars == <<sourceDir, indexFiles, filePos, totalProcessed, embeddings, embLog, runs,
             observed, ipc>>

dataVars == <<markdown, chunks, vec1, vec2, cosOut, dpc>>

qdrantVars == <<qArgs, qDisk, qAllPoints, qPoints, qLog, qpc>>

instVars == <<instance, indexDir, callers>>

splitVars == <<sText, sChunks, spc>>

sessVars == <<hLog>>

pageVars == <<browser, openPages, tasks, pJob>>

extVars == <<qdrantVars, instVars, splitVars, sessVars, pageVars>>

vars == <<prog, normVars, crawlerVars, recVars, toolVars, idxVars, dataVars, sessVars, pageVars, extVars>>

\* ------------------------------------------------------------------ bounds
MaxBody == 3        \* longest path-and-fragment part of an input string
MaxLinks == 2       \* most anchors on one page
MaxLoads == 3       \* most pages of the site that load; every later fetch fails
MaxSaveFailures == 1 \* most page files whose write fails
MaxDepthArg == 2    \* largest maxDepth given to crawlRecursive
MaxPagesArg == 4    \* largest maxPages given to crawlRecursive

\* ------------------------------------------------------------ string helpers
Range(s) == {s[i] : i \in 1..Len(s)}

\* the element of a one-element set: Only({e : x \in {v}}) is e with x = v,
\* where v is evaluated once, also inside ENABLED
Only(S) == CHOOSE x \in S : TRUE

StartsWith(s, p) == Len(p) <= Len(s) /\ SubSeq(s, 1, Len(p)) = p

EndsWithSlash(s) == s # <<>> /\ s[Len(s)] = "/"

\* position of the first "#", 0 when there is none
FirstHash(s) ==
    IF \E i \in 1..Len(s) : s[i] = "#"
    THEN CHOOSE i \in 1..Len(s) : s[i] = "#" /\ \A j \in 1..(i-1) : s[j] # "#"
    ELSE 0

\* s.split("#")[0]
BeforeHash(s) == IF FirstHash(s) = 0 THEN s ELSE SubSeq(s, 1, FirstHash(s) - 1)

\* the fragment with its "#", empty when there is none
FromHash(s) == IF FirstHash(s) = 0 THEN <<>> ELSE SubSeq(s, FirstHash(s), Len(s))

\* position of the last "/", 0 when there is none
LastSlash(s) ==
    IF \E i \in 1..Len(s) : s[i] = "/"
    THEN CHOOSE i \in 1..Len(s) : s[i] = "/" /\ \A j \in (i+1)..Len(s) : s[j] # "/"
    ELSE 0

\* pathname.substring(0, pathname.lastIndexOf("/") + 1)
Dir(path) == SubSeq(path, 1, LastSlash(path))

\* number of leading tokens that spell scheme and host
HostLen(s) ==
    IF s = <<>> \/ s[1] \notin {"O", "P"} THEN 0
    ELSE CHOOSE n \in 1..Len(s) :
            /\ \A i \in 2..n : s[i] = "E"
            /\ (n < Len(s) => s[n+1] # "E")

HasScheme(s) == HostLen(s) > 0

\* ------------------------------------------------------- WHATWG URL parsing
Invalid == [host |-> <<>>, path |-> <<>>, frag |-> <<>>]

\* new URL(s) for an absolute s
ParseAbs(s) ==
    LET hl   == HostLen(s)
        rest == SubSeq(s, hl + 1, Len(s))
        p    == BeforeHash(rest)
    IN  IF hl = 0 \/ "B" \in Range(s) THEN Invalid
        ELSE [host |-> SubSeq(s, 1, hl),
              path |-> IF p = <<>> THEN <<"/">> ELSE p,
              frag |-> FromHash(rest)]

\* new URL(href, base), base a parsed URL
NewURL(href, base) ==
    IF "B" \in Range(href) THEN Invalid
    ELSE IF HasScheme(href) THEN ParseAbs(href)
    ELSE LET p == BeforeHash(href)
             f == FromHash(href)
         IN  IF p = <<>> THEN [base EXCEPT !.frag = f]
             ELSE IF p[1] = "/" THEN [host |-> base.host, path |-> p, frag |-> f]
             ELSE [host |-> base.host, path |-> Dir(base.path) \o p, frag |-> f]

\* URL.href
Href(u) == u.host \o u.path \o u.frag

\* URL.origin
Origin(u) == u.host

\* str.replace(/\/$/, "")
StripTrailingSlash(s) == IF EndsWithSlash(s) THEN SubSeq(s, 1, Len(s) - 1) ELSE s

\* utils.ts normalizeUrl
normalizeUrl(url, base) ==
    LET parsed == NewURL(url, base)
    IN  IF parsed = Invalid THEN <<>>
        ELSE BeforeHash(StripTrailingSlash(Href(parsed)))

\* --------------------------------------------------- inputs of normalizeUrl
RECURSIVE SeqsUpTo(_, _)
SeqsUpTo(S, n) ==
    IF n = 0 THEN {<<>>}
    ELSE LET shorter == SeqsUpTo(S, n - 1)
         IN  shorter \cup {Append(s, t) : s \in shorter, t \in S}

Bodies == SeqsUpTo({"/", "x", "#", "f"}, MaxBody)

Prefixes == {<<>>, <<"O">>, <<"O", "E">>, <<"P">>, <<"O", "B">>}

\* strings whose parse the token model renders exactly: after a host comes a
\* path or a fragment, and a relative reference is not scheme-relative ("//")
WellFormed(pre, body) ==
    /\ (pre # <<>> /\ body # <<>>) => body[1] \in {"/", "#"}
    /\ (pre = <<>> /\ Len(body) >= 2) => ~(body[1] = "/" /\ body[2] = "/")

NormInputs == {pre \o body : <<pre, body>> \in {pb \in Prefixes \X Bodies : WellFormed(pb[1], pb[2])}}

BaseUrls == {<<"O", "/">>, <<"O", "/", "x">>, <<"O", "/", "x", "/">>}

\* the variables of a program that is not running
IdleNorm == nUrl = <<>> /\ nBase = <<>> /\ nOut = <<>> /\ nPc = 0

IdleCrawler ==
    /\ baseUrl = <<>>
    /\ visited = {}
    /\ queue = <<>>
    /\ pending = {}
    /\ job = [status |-> "none", pagesProcessed |-> 0, errors |-> <<>>]
    /\ files = <<>>
    /\ fetchLog = <<>>
    /\ cpc = "none"

NoCall == [url |-> <<>>, depth |-> -1]

IdleRec ==
    /\ startUrl = <<>>
    /\ maxDepth = 0
    /\ maxPages = 0
    /\ rVisited = {}
    /\ pagesCrawled = 0
    /\ rStack = <<>>
    /\ rCrawling = NoCall
    /\ rLog = <<>>
    /\ rSkipped = {}
    /\ rLinks = <<>>
    /\ rpc = "none"

NoArgs == [url |-> <<>>, queries |-> <<>>, limit |-> 0, forceCrawl |-> FALSE]

NoOutcome == [kind |-> "none"]

IdleTools ==
    /\ hArgs = NoArgs
    /\ index = <<>>
    /\ websiteDirs = {}
    /\ mkdirs = {}
    /\ crawlJobs = <<>>
    /\ metadata = {}
    /\ indexed = {}
    /\ searches = <<>>
    /\ allResults = <<>>
    /\ seenDocuments = {}
    /\ hOut = NoOutcome
    /\ hpc = "none"

NoRead == [kind |-> "none"]

IdleIndex ==
    /\ sourceDir = <<>>
    /\ indexFiles = <<>>
    /\ filePos = 0
    /\ totalProcessed = 0
    /\ embeddings = "none"
    /\ embLog = {}
    /\ runs = <<>>
    /\ observed = NoRead
    /\ ipc = "none"

IdleData ==
    /\ markdown = <<>>
    /\ chunks = <<>>
    /\ vec1 = <<>>
    /\ vec2 = <<>>
    /\ cosOut = <<>>
    /\ dpc = "none"

IdleQdrant ==
    /\ qArgs = <<>>
    /\ qDisk = <<>>
    /\ qAllPoints = <<>>
    /\ qPoints = <<>>
    /\ qLog = <<>>
    /\ qpc = "none"

Null == [kind |-> "null"]

IdleInst == instance = Null /\ indexDir = "none" /\ callers = <<>>

IdleSplit == sText = <<>> /\ sChunks = <<>> /\ spc = "none"

IdleSess == hLog = <<>>

IdlePage == browser = "none" /\ openPages = {} /\ tasks = <<>> /\ pJob = <<>>

IdleExt == IdleQdrant /\ IdleInst /\ IdleSplit /\ IdleSess /\ IdlePage

\* ------------------------------------------------ program 1: normalizeUrl
InitNorm ==
    /\ prog = "normalizeUrl"
    /\ nUrl \in NormInputs
    /\ nBase \in BaseUrls
    /\ nOut = <<>>
    /\ nPc = 0
    /\ IdleCrawler
    /\ IdleRec
    /\ IdleTools
    /\ IdleIndex
    /\ IdleData
    /\ IdleExt

\* normalizeUrl(url, base), then normalizeUrl of the result
NormCall ==
    /\ prog = "normalizeUrl"
    /\ nPc < 2
    /\ nOut' = Append(nOut, normalizeUrl(IF nPc = 0 THEN nUrl ELSE nOut[nPc], ParseAbs(nBase)))
    /\ nPc' = nPc + 1
    /\ UNCHANGED <<prog, toolVars, idxVars, dataVars, extVars, nUrl, nBase, crawlerVars, recVars>>

NextNorm == NormCall

SpecNorm == InitNorm /\ [][NextNorm]_vars


\* ---------------------------------- program 2: WebsiteCrawler (puppeteer)
concurrency == 2    \* new PQueue({ concurrency: 2 })
MAX_DEPTH == 2      \* const MAX_DEPTH = 2

\* href attributes a page may carry
Hrefs == {
    <<"/">>,                        \* the site root
    <<"/", "#", "f">>,              \* the site root, with a fragment
    <<"x">>,                        \* relative to the page
    <<"#", "f">>,                   \* an anchor of the page itself
    <<"O", "E", "/">>,              \* http://a.com.evil.org/
    <<"P", "/">> }                  \* http://b.org/

CrawlBases == {<<"O", "/">>, <<"O", "/", "x">>}

NoLink == <<"null">>

\* processPage, the callback of page.evaluate that maps one anchor to a link:
\* origin is this.baseUrl.origin, loc is window.location
ExtractLink(href, origin, loc) ==
    IF href = <<>> \/ href[1] = "#" \/ href[1] = "J" THEN NoLink
    ELSE LET u == IF href[1] = "/" THEN NewURL(href, ParseAbs(origin))
                  ELSE NewURL(href, ParseAbs(Origin(loc) \o Dir(loc.path)))
             fullUrl == IF href[1] = "/" \/ ~HasScheme(href) THEN Href(u) ELSE href
         IN  IF (href[1] = "/" \/ ~HasScheme(href)) /\ u = Invalid THEN NoLink
             ELSE IF StartsWith(fullUrl, origin) THEN fullUrl ELSE NoLink

\* processPage, .map(...).filter((url) => url !== null): the values that
\* result.links can take for the page at url, one for every list of at most
\* MaxLinks anchors: the lists, in page order, of the links of those anchors
PageLinks(url, origin) ==
    Only({SeqsUpTo(links, MaxLinks) :
            links \in {{ExtractLink(href, o, loc) : href \in Hrefs,
                                                    o \in {origin},
                                                    loc \in {ParseAbs(url)}} \ {NoLink}}})

\* savePage: the file name is the pathname with every "/" replaced by "_"
FileName(url) ==
    LET path == ParseAbs(url).path
    IN  [i \in 1..Len(path) |-> IF path[i] = "/" THEN "_" ELSE path[i]]

\* one more call of processPage in the history
Logged(log, call) ==
    [c \in DOMAIN log \cup {call} |-> IF c = call
                                      THEN (IF c \in DOMAIN log THEN log[c] + 1 ELSE 1)
                                      ELSE log[c]]

\* the scheduler state that the synchronous part of a task works on
Sched(v, q, p, log) == [visited |-> v, queue |-> q, pending |-> p, fetchLog |-> log, held |-> 0]

\* crawl, processUrl up to its first await: the test and insert on visited and
\* the call of processPage.  A task that returns at once keeps its PQueue slot
\* until the current synchronous run ends (held).
StartTask(st, item) ==
    Only({IF normalizedUrl \in s.visited
          THEN [s EXCEPT !.held = @ + 1]
          ELSE [s EXCEPT !.visited = @ \cup {normalizedUrl},
                         !.pending = @ \cup {[url |-> normalizedUrl, depth |-> item.depth,
                                               pc |-> "processPage"]},
                         !.fetchLog = Logged(@, [url |-> normalizedUrl, depth |-> item.depth])]
          : s \in {st}, normalizedUrl \in {normalizeUrl(item.url, ParseAbs(baseUrl))}})

\* PQueue.add that starts the task whatever the number of running tasks
QueueAdd_NoLimit(st, item) ==
    LET q == Append(st.queue, item)
    IN  StartTask([st EXCEPT !.queue = Tail(q)], Head(q))

\* PQueue.add: enqueue, then start the head of the queue if a slot is free
QueueAdd(st, item) ==
    LET q == Append(st.queue, item)
    IN  IF Cardinality(st.pending) + st.held < concurrency
        THEN StartTask([st EXCEPT !.queue = Tail(q)], Head(q))
        ELSE [st EXCEPT !.queue = q]

\* crawl, the loop over result.links of processUrl
RECURSIVE AddLinks(_, _, _)
AddLinks(st, links, depth) ==
    IF links = <<>> THEN st
    ELSE LET link == Head(links)
             st2 == IF link \notin st.visited
                    THEN QueueAdd(st, [url |-> link, depth |-> depth + 1])
                    ELSE st
         IN  AddLinks(st2, Tail(links), depth)

\* PQueue that never starts a queued task when a slot is freed
Drain_NoRestart(st) == [st EXCEPT !.held = 0]

\* PQueue, after tasks settle: every freed slot starts the next queued task
RECURSIVE Drain(_)
Drain(st) ==
    IF st.queue = <<>> \/ Cardinality(st.pending) >= concurrency THEN [st EXCEPT !.held = 0]
    ELSE Only({Drain(st2) :
                 st2 \in {StartTask([st EXCEPT !.queue = Tail(@), !.held = 0], Head(st.queue))}})

Install(st) ==
    /\ visited' = st.visited
    /\ queue' = st.queue
    /\ pending' = st.pending
    /\ fetchLog' = st.fetchLog

\* the constructor
InitCrawler ==
    /\ prog = "WebsiteCrawler"
    /\ IdleNorm
    /\ IdleRec
    /\ IdleTools
    /\ IdleIndex
    /\ IdleData
    /\ IdleExt
    /\ baseUrl \in CrawlBases
    /\ visited = {}
    /\ queue = <<>>
    /\ pending = {}
    /\ job = [status |-> "running", pagesProcessed |-> 0, errors |-> <<>>]
    /\ files = <<>>
    /\ fetchLog = <<>>
    /\ cpc = "constructed"

\* crawl(): adds the task of the base URL and awaits queue.onIdle()
Crawl ==
    /\ prog = "WebsiteCrawler"
    /\ cpc = "constructed"
    /\ \E st \in {Drain(QueueAdd(Sched(visited, queue, pending, fetchLog),
                                   [url |-> baseUrl, depth |-> 0]))} : Install(st)
    /\ cpc' = "crawling"
    /\ UNCHANGED <<prog, toolVars, idxVars, dataVars, extVars, normVars, recVars, baseUrl, job, files>>

\* pages loaded so far, and page files whose write failed so far
Loads == job.pagesProcessed + Cardinality({t \in pending : t.pc = "savePage"})

SaveFailures == Cardinality({i \in 1..Len(job.errors) : job.errors[i][1] = "Failed to save"})

\* processPage returns a PageResult: the page loaded and was read.  Its
\* result.links stay local to the task until the loop of processUrl, so the
\* links of the page are drawn where that loop runs (SavePage).
ProcessPageOk(t) ==
    /\ prog = "WebsiteCrawler"
    /\ t \in pending
    /\ t.pc = "processPage"
    /\ ParseAbs(t.url) # Invalid
    /\ Loads < MaxLoads
    /\ pending' = (pending \ {t}) \cup {[t EXCEPT !.pc = "savePage"]}
    /\ UNCHANGED <<prog, toolVars, idxVars, dataVars, extVars, normVars, recVars, baseUrl, visited, queue, job, files, fetchLog, cpc>>

\* processPage catches a failure (launch, navigation, timeout, extraction),
\* records it and returns null; processUrl ends and its slot is freed
ProcessPageFail(t) ==
    /\ prog = "WebsiteCrawler"
    /\ t \in pending
    /\ t.pc = "processPage"
    /\ job' = [job EXCEPT !.errors = Append(@, <<"Failed to process", t.url>>)]
    /\ \E st \in {Drain(Sched(visited, queue, pending \ {t}, fetchLog))} : Install(st)
    /\ UNCHANGED <<prog, toolVars, idxVars, dataVars, extVars, normVars, recVars, baseUrl, files, cpc>>

\* savePage settles (the file is written, or the failure is recorded), then
\* processUrl counts the page and queues the links of the page
SavePage(t, saved, links) ==
    /\ prog = "WebsiteCrawler"
    /\ t \in pending
    /\ t.pc = "savePage"
    /\ ~saved => SaveFailures < MaxSaveFailures
    /\ files' = IF saved
                 THEN [f \in DOMAIN files \cup {FileName(t.url)} |->
                          IF f = FileName(t.url) THEN t.url ELSE files[f]]
                 ELSE files
    /\ job' = [job EXCEPT !.pagesProcessed = @ + 1,
                          !.errors = IF saved THEN @
                                     ELSE Append(@, <<"Failed to save", FileName(t.url)>>)]
    /\ LET st == Sched(visited, queue, pending, fetchLog)
           st2 == IF t.depth < MAX_DEPTH THEN AddLinks(st, links, t.depth) ELSE st
       IN  \E st3 \in {Drain([st2 EXCEPT !.pending = @ \ {t}])} : Install(st3)
    /\ UNCHANGED <<prog, toolVars, idxVars, dataVars, extVars, normVars, recVars, baseUrl, cpc>>

\* crawl() that fails the job as soon as one error was recorded
Finish_AnyErrorFails ==
    /\ prog = "WebsiteCrawler"
    /\ cpc = "crawling"
    /\ queue = <<>>
    /\ pending = {}
    /\ job' = IF job.pagesProcessed = 0 \/ Len(job.errors) > 0
              THEN [job EXCEPT !.status = "failed"]
              ELSE [job EXCEPT !.status = "completed"]
    /\ cpc' = "returned"
    /\ UNCHANGED <<prog, toolVars, idxVars, dataVars, extVars, normVars, recVars, baseUrl, visited, queue, pending, files, fetchLog>>

\* crawl() that does not await queue.onIdle()
Finish_NoOnIdle ==
    /\ prog = "WebsiteCrawler"
    /\ cpc = "crawling"
    /\ job' = IF job.pagesProcessed = 0
              THEN [job EXCEPT !.status = "failed"]
              ELSE [job EXCEPT !.status = "completed"]
    /\ cpc' = "returned"
    /\ UNCHANGED <<prog, toolVars, idxVars, dataVars, extVars, normVars, recVars, baseUrl, visited, queue, pending, files, fetchLog>>

\* queue.onIdle() resolves: the job gets its terminal status
Finish ==
    /\ prog = "WebsiteCrawler"
    /\ cpc = "crawling"
    /\ queue = <<>>
    /\ pending = {}
    /\ job' = IF job.pagesProcessed = 0
              THEN [job EXCEPT !.status = "failed",
                               !.errors = IF Len(@) = 0
                                          THEN Append(@, <<"Crawl failed", <<>>>>)
                                          ELSE @]
              ELSE [job EXCEPT !.status = "completed"]
    /\ cpc' = "returned"
    /\ UNCHANGED <<prog, toolVars, idxVars, dataVars, extVars, normVars, recVars, baseUrl, visited, queue, pending, files, fetchLog>>

NextCrawler ==
    \/ Crawl
    \/ \E t \in pending : ProcessPageOk(t)
    \/ \E t \in pending : ProcessPageFail(t)
    \/ \E t \in pending, saved \in BOOLEAN :
          \E links \in PageLinks(t.url, Origin(ParseAbs(baseUrl))) : SavePage(t, saved, links)
    \/ Finish

SpecCrawler == InitCrawler /\ [][NextCrawler]_vars

\* the event loop runs every continuation that is ready: crawl() is called,
\* page.goto and the file write settle (puppeteer times out a navigation),
\* and a resolved onIdle() is delivered
SpecCrawlerFair == SpecCrawler /\ WF_vars(NextCrawler)

\* ------------------------- program 3: crawlWebsite / crawlRecursive (crawling.ts)
StartUrls == {<<"O", "/">>, <<"O", "/", "x">>}

\* browser.ts extractAllUrlsWithSameBaseUrl, one anchor: the href resolved
\* against the page, dropped when of another scheme or origin
ResolveSameOrigin(url, href) ==
    LET resolvedUrl == NewURL(href, ParseAbs(url))
    IN  IF /\ href # <<>>
           /\ href[1] # "J"
           /\ resolvedUrl # Invalid
           /\ Origin(resolvedUrl) = Origin(ParseAbs(url))
        THEN Href(resolvedUrl)
        ELSE NoLink

\* browser.ts extractAllUrlsWithSameBaseUrl: the values it can return for the
\* page at url, one for every list of at most MaxLinks anchors: Array.from of
\* a Set, so no url twice
extractAllUrlsWithSameBaseUrl(url) ==
    {uniqueUrls \in SeqsUpTo({ResolveSameOrigin(url, href) : href \in Hrefs} \ {NoLink}, MaxLinks) :
        \A i, j \in 1..Len(uniqueUrls) : uniqueUrls[i] = uniqueUrls[j] => i = j}

\* crawlRecursive, "if (depth > maxDepth) return"
DepthExceeded_OffByOne(depth) == depth > maxDepth + 1

DepthExceeded(depth) == depth > maxDepth

\* crawlRecursive, "if (pagesCrawled.count >= maxPages) return"
PagesExhausted(count) == count >= maxPages

\* the loops over discoveredUrls run on, each crawlRecursive call returning at
\* once, until one call reaches crawlSingleUrl or the outermost loop ends
RECURSIVE crawlRecursive(_, _)
crawlRecursive(st, count) ==
    IF st.stack = <<>> THEN st
    ELSE LET n == Len(st.stack)
             top == st.stack[n]
         IN  IF top.todo = <<>>
             THEN crawlRecursive([st EXCEPT !.stack = SubSeq(@, 1, n - 1)], count)
             ELSE LET url == Head(top.todo)
                      depth == top.depth + 1
                      st1 == [st EXCEPT !.stack[n].todo = Tail(@)]
                  IN  IF url \in st.visited THEN crawlRecursive(st1, count)
                      ELSE IF DepthExceeded(depth)
                      THEN crawlRecursive([st1 EXCEPT !.skipped = @ \cup {[url |-> url, depth |-> depth]}], count)
                      ELSE IF PagesExhausted(count) THEN crawlRecursive(st1, count)
                      ELSE [st1 EXCEPT !.visited = @ \cup {url},
                                       !.crawling = [url |-> url, depth |-> depth],
                                       !.log = Logged(@, [url |-> url, depth |-> depth])]

RecState == [stack |-> rStack, visited |-> rVisited, crawling |-> NoCall, log |-> rLog,
             skipped |-> rSkipped]

InstallRec(st) ==
    /\ rStack' = st.stack
    /\ rVisited' = st.visited
    /\ rCrawling' = st.crawling
    /\ rLog' = st.log
    /\ rSkipped' = st.skipped
    /\ rpc' = IF st.stack = <<>> /\ st.crawling = NoCall THEN "returned" ELSE "crawling"

InitRec ==
    /\ prog = "crawlWebsite"
    /\ IdleNorm
    /\ IdleCrawler
    /\ IdleTools
    /\ IdleIndex
    /\ IdleData
    /\ IdleExt
    /\ startUrl \in StartUrls
    /\ maxDepth \in 0..MaxDepthArg
    /\ maxPages \in 1..MaxPagesArg
    /\ rVisited = {}
    /\ pagesCrawled = 0
    /\ rStack = <<>>
    /\ rCrawling = NoCall
    /\ rLog = <<>>
    /\ rSkipped = {}
    /\ rLinks = <<>>
    /\ rpc = "called"

\* crawlWebsite: the browser is launched and crawlSingleUrl(url) is called
crawlWebsite ==
    /\ prog = "crawlWebsite"
    /\ rpc = "called"
    /\ rCrawling' = [url |-> startUrl, depth |-> 0]
    /\ rLog' = Logged(rLog, [url |-> startUrl, depth |-> 0])
    /\ rpc' = "crawling"
    /\ UNCHANGED <<prog, toolVars, idxVars, dataVars, extVars, normVars, crawlerVars, startUrl, maxDepth, maxPages, rVisited,
                   pagesCrawled, rStack, rSkipped, rLinks>>

\* crawlWebsite: launchBrowser throws, the catch returns the error
launchBrowserFails ==
    /\ prog = "crawlWebsite"
    /\ rpc = "called"
    /\ rpc' = "returned"
    /\ UNCHANGED <<prog, toolVars, idxVars, dataVars, extVars, normVars, crawlerVars, startUrl, maxDepth, maxPages, rVisited,
                   pagesCrawled, rStack, rCrawling, rLog, rSkipped, rLinks>>

\* crawlSingleUrl returns the page's discovered urls: the page is counted and
\* its urls are crawled in turn
crawlSingleUrlOk(discoveredUrls) ==
    /\ prog = "crawlWebsite"
    /\ rCrawling # NoCall
    /\ pagesCrawled' = pagesCrawled + 1
    /\ LET st == [RecState EXCEPT
                    !.visited = IF rCrawling.depth = 0 THEN @ \cup {rCrawling.url} ELSE @,
                    !.stack = Append(@, [depth |-> rCrawling.depth, todo |-> discoveredUrls])]
       IN  InstallRec(crawlRecursive(st, pagesCrawled + 1))
    /\ rLinks' = [u \in DOMAIN rLinks \cup {rCrawling.url} |->
                     IF u = rCrawling.url THEN Range(discoveredUrls) ELSE rLinks[u]]
    /\ UNCHANGED <<prog, toolVars, idxVars, dataVars, extVars, normVars, crawlerVars, startUrl, maxDepth, maxPages>>

\* crawlSingleUrl throws: crawlRecursive logs and returns; for the start url
\* the catch of crawlWebsite ends the crawl
crawlSingleUrlFails ==
    /\ prog = "crawlWebsite"
    /\ rCrawling # NoCall
    /\ IF rCrawling.depth = 0
       THEN /\ rCrawling' = NoCall
            /\ rpc' = "returned"
            /\ UNCHANGED <<rStack, rVisited, rLog, rSkipped>>
       ELSE InstallRec(crawlRecursive(RecState, pagesCrawled))
    /\ UNCHANGED <<prog, toolVars, idxVars, dataVars, extVars, normVars, crawlerVars, startUrl, maxDepth, maxPages, pagesCrawled,
                   rLinks>>

NextRec ==
    \/ crawlWebsite
    \/ launchBrowserFails
    \/ \E discoveredUrls \in extractAllUrlsWithSameBaseUrl(rCrawling.url) : crawlSingleUrlOk(discoveredUrls)
    \/ crawlSingleUrlFails

SpecRec == InitRec /\ [][NextRec]_vars

\* --------------------------------------- either crawler of the repository
InitCrawl == InitCrawler \/ InitRec

NextCrawl == NextCrawler \/ NextRec

SpecCrawl == InitCrawl /\ [][NextCrawl]_vars

\* ------------------------------------- program 4: the handlers of tools.ts
\* handleSearchWebsite and handleSearchExistingData, with the IndexDatabase
\* they search.  A distance d stands for d / 100000, a relevance r for
\* r / 10000.

MaxQueries == 3     \* longest list of queries given to a handler
MaxLimit == 2       \* largest limit given to a handler

QueryNames == {"q1", "q2"}

SiteUrl == <<"O">>

\* the url of one page of the site
PageUrl == SiteUrl \o <<"/", "y">>

\* the url argument: missing, the url of a site, or the url of a page
ToolUrls == {<<>>, SiteUrl, PageUrl}

\* the directories of WEBSITES_DIR: none, or one for each url (the name of a
\* directory holds a hash of the whole url)
WebsiteDirs == {{}, ToolUrls \ {<<>>}}

\* the chunks of the index files, in the order search reads them: two chunks
\* of one page, a chunk of a second page, a chunk of a page of another site
Chunks == <<
    [url |-> <<"O", "/", "x">>, content |-> "c1"],
    [url |-> <<"O", "/", "x">>, content |-> "c2"],
    [url |-> <<"O", "/", "y">>, content |-> "c3"],
    [url |-> <<"P", "/", "x">>, content |-> "c4"] >>

\* 1 - similarity of a chunk to a query: 0.10004 or 0.5
Distances == {10004, 50000}

\* the queries that have a key term (longer than 3 characters) in a content
ContentTerms == [c \in {"c1", "c2", "c3", "c4"} |->
                    CASE c = "c1" -> {"q1"}
                      [] c = "c2" -> {"q2"}
                      [] c = "c3" -> {"q1", "q2"}
                      [] c = "c4" -> {}]

Min(a, b) == IF a < b THEN a ELSE b

Take(s, n) == SubSeq(s, 1, Min(n, Len(s)))

\* s without its element at position i
Without(s, i) == SubSeq(s, 1, i-1) \o SubSeq(s, i+1, Len(s))

\* Array.prototype.sort((a, b) => key(b) - key(a)), which is stable: s in
\* the order of the keys k (k[i] the key of s[i]), largest first, elements
\* of equal keys in the order they had
RECURSIVE SortDesc(_, _)
SortDesc(s, k) ==
    IF s = <<>> THEN <<>>
    ELSE LET i == CHOOSE i \in 1..Len(s) :
                     /\ \A j \in 1..Len(s) : k[j] <= k[i]
                     /\ \A j \in 1..(i-1) : k[j] < k[i]
         IN  <<s[i]>> \o SortDesc(Without(s, i), Without(k, i))

\* a search that slices the chunks under baseUrl in stored order
search_Unsorted(query, limit, base) ==
    Take(SelectSeq([i \in 1..Len(Chunks) |->
                       [url |-> Chunks[i].url, content |-> Chunks[i].content,
                        distance |-> index[query][i]]],
                   LAMBDA c : base = <<>> \/ StartsWith(c.url, base)),
         limit)

\* IndexDatabase.search(query, limit, baseUrl): the chunks under baseUrl,
\* most similar first, at most limit of them
search(query, limit, base) ==
    LET under == SelectSeq([i \in 1..Len(Chunks) |->
                               [url |-> Chunks[i].url, content |-> Chunks[i].content,
                                distance |-> index[query][i]]],
                           LAMBDA c : base = <<>> \/ StartsWith(c.url, base))
        similarity == [i \in 1..Len(under) |-> 100000 - under[i].distance]
    IN  Take(SortDesc(under, similarity), limit)

\* (x).toFixed(4) of x = v / 100000, as a number of ten-thousandths
ToFixed4(v) == (v + 5) \div 10

\* parseFloat((1 - r.distance).toFixed(4))
Relevance(r) == ToFixed4(100000 - r.distance)

\* utils.ts formatSearchResult, for a content within maxContentLength
formatSearchResult(result) ==
    [url |-> result.url,
     content |-> result.content,
     relevance |-> ToFixed4(100000 - result.distance),
     matchedQueries |-> result.matchedQueries]

\* the union of matched queries without the removal of duplicates
Uniq_KeepAll(arr) == arr

\* arr.filter((q, i, arr) => arr.indexOf(q) === i)
Uniq(arr) ==
    LET keep == {i \in 1..Len(arr) : \A j \in 1..(i-1) : arr[j] # arr[i]}
        F[i \in 0..Len(arr)] ==
            IF i = 0 THEN <<>> ELSE IF i \in keep THEN Append(F[i-1], arr[i]) ELSE F[i-1]
    IN  F[Len(arr)]

\* throw new McpError(code, message)
Thrown(code, message) == [kind |-> "error", code |-> code, message |-> message]

\* the catch of a handler: whatever was thrown in its try block, an McpError
\* included, is thrown again as an InternalError with the message inside
Caught(error) == Thrown("InternalError", <<"Search operation failed">> \o error.message)

Returned(results) == [kind |-> "result", results |-> results]

ToolArgs(forces) ==
    [url : ToolUrls, queries : SeqsUpTo(QueryNames, MaxQueries), limit : 1..MaxLimit,
     forceCrawl : forces]

Indexes == [QueryNames -> [1..Len(Chunks) -> Distances]]

\* --------------------------------------------- handleSearchExistingData
\* one turn of the loop over queries: the results of q, each with its
\* relevance and matchedQueries: [q]
ExistingResults(q, limit) ==
    LET results == search(q, limit, <<>>)
    IN  [i \in 1..Len(results) |->
            [url |-> results[i].url, content |-> results[i].content,
             distance |-> results[i].distance, relevance |-> Relevance(results[i]),
             matchedQueries |-> <<q>>]]

\* the reduce into a Map keyed by url; map is the values of the Map in the
\* order of insertion
\* the reduce that adds every result as a new entry
DedupeByUrl_KeepAll(results, map) == map \o results

RECURSIVE DedupeByUrl(_, _)
DedupeByUrl(results, map) ==
    IF results = <<>> THEN map
    ELSE LET result == Head(results)
             at == {i \in 1..Len(map) : map[i].url = result.url}
         IN  IF at = {} THEN DedupeByUrl(Tail(results), Append(map, result))
             ELSE LET i == CHOOSE i \in at : TRUE
                      existing == [map[i] EXCEPT
                          !.relevance = IF result.relevance > @ THEN result.relevance ELSE @,
                          !.matchedQueries = Uniq(@ \o result.matchedQueries)]
                  IN  DedupeByUrl(Tail(results), [map EXCEPT ![i] = existing])

\* the url filter, the deduplication, the sort, the slice and the formatting
ExistingOutput(all, url, limit) ==
    LET filteredResults == IF url # <<>>
                           THEN SelectSeq(all, LAMBDA r : StartsWith(r.url, url))
                           ELSE all
        unique == DedupeByUrl(filteredResults, <<>>)
        uniqueResults == Take(SortDesc(unique, [i \in 1..Len(unique) |-> unique[i].relevance]),
                              limit)
    IN  [i \in 1..Len(uniqueResults) |-> formatSearchResult(uniqueResults[i])]

\* allResults after the loop over queries
RECURSIVE ExistingAllResults(_, _)
ExistingAllResults(queries, limit) ==
    IF queries = <<>> THEN <<>>
    ELSE ExistingResults(Head(queries), limit) \o ExistingAllResults(Tail(queries), limit)

InitExisting ==
    /\ prog = "handleSearchExistingData"
    /\ IdleNorm
    /\ IdleCrawler
    /\ IdleRec
    /\ IdleIndex
    /\ IdleData
    /\ IdleExt
    /\ hArgs \in ToolArgs({FALSE})
    /\ index \in Indexes
    /\ websiteDirs \in WebsiteDirs
    /\ mkdirs = {}
    /\ crawlJobs = <<>>
    /\ metadata = {}
    /\ indexed = {}
    /\ searches = <<>>
    /\ allResults = <<>>
    /\ seenDocuments = {}
    /\ hOut = NoOutcome
    /\ hpc = "called"

\* no query: InvalidParams, thrown before the try block
SearchExistingInvalid ==
    /\ prog = "handleSearchExistingData"
    /\ hpc = "called"
    /\ hArgs.queries = <<>>
    /\ hOut' = Thrown("InvalidParams", <<"At least one search query is required">>)
    /\ hpc' = "thrown"
    /\ UNCHANGED <<prog, idxVars, dataVars, extVars, normVars, crawlerVars, recVars, hArgs, index, websiteDirs, mkdirs,
                   crawlJobs, metadata, indexed, searches, allResults, seenDocuments>>

\* a url without website directory: listCrawledWebsites (which makes sure
\* WEBSITES_DIR exists), then the McpError InvalidParams thrown inside the try
\* block, which the catch of the handler wraps
SearchExistingNotCrawled ==
    /\ prog = "handleSearchExistingData"
    /\ hpc = "called"
    /\ hArgs.queries # <<>>
    /\ hArgs.url # <<>>
    /\ hArgs.url \notin websiteDirs
    /\ mkdirs' = mkdirs \cup {"WEBSITES_DIR"}
    /\ hOut' = Caught(Thrown("InvalidParams", <<"has not been crawled yet">>))
    /\ hpc' = "thrown"
    /\ UNCHANGED <<prog, idxVars, dataVars, extVars, normVars, crawlerVars, recVars, hArgs, index, websiteDirs,
                   crawlJobs, metadata, indexed, searches, allResults, seenDocuments>>

\* the checks pass: IndexDatabase.getInstance()
SearchExistingStart ==
    /\ prog = "handleSearchExistingData"
    /\ hpc = "called"
    /\ hArgs.queries # <<>>
    /\ hArgs.url # <<>> => hArgs.url \in websiteDirs
    /\ hpc' = "search"
    /\ UNCHANGED <<prog, idxVars, dataVars, extVars, normVars, crawlerVars, recVars, hArgs, index, websiteDirs, mkdirs,
                   crawlJobs, metadata, indexed, searches, allResults, seenDocuments, hOut>>

\* one turn of the loop: db.search(q, limit) and the push on allResults
SearchExistingQuery ==
    /\ prog = "handleSearchExistingData"
    /\ hpc = "search"
    /\ Len(searches) < Len(hArgs.queries)
    /\ LET q == hArgs.queries[Len(searches) + 1]
       IN  /\ searches' = Append(searches, [query |-> q, limit |-> hArgs.limit,
                                             baseUrl |-> <<>>])
           /\ allResults' = allResults \o ExistingResults(q, hArgs.limit)
    /\ UNCHANGED <<prog, idxVars, dataVars, extVars, normVars, crawlerVars, recVars, hArgs, index, websiteDirs, mkdirs,
                   crawlJobs, metadata, indexed, seenDocuments, hOut, hpc>>

\* after the loop: filter, deduplicate, sort, slice, format, return
SearchExistingReturn ==
    /\ prog = "handleSearchExistingData"
    /\ hpc = "search"
    /\ Len(searches) = Len(hArgs.queries)
    /\ hOut' = Returned(ExistingOutput(allResults, hArgs.url, hArgs.limit))
    /\ hpc' = "returned"
    /\ UNCHANGED <<prog, idxVars, dataVars, extVars, normVars, crawlerVars, recVars, hArgs, index, websiteDirs, mkdirs,
                   crawlJobs, metadata, indexed, searches, allResults, seenDocuments>>

NextExisting ==
    \/ SearchExistingInvalid
    \/ SearchExistingNotCrawled
    \/ SearchExistingStart
    \/ SearchExistingQuery
    \/ SearchExistingReturn

SpecExisting == InitExisting /\ [][NextExisting]_vars

\* -------------------------------------------------- handleSearchWebsite
\* one turn of the loop over queries: the results of q whose url was not
\* seen in an earlier turn, each with its relevance
WebsiteNewResults(q, url, limit, seen) ==
    LET results == search(q, limit * 2, url)
        fresh == SelectSeq(results, LAMBDA r : r.url \notin seen)
    IN  [i \in 1..Len(fresh) |->
            [url |-> fresh[i].url, content |-> fresh[i].content,
             distance |-> fresh[i].distance, relevance |-> Relevance(fresh[i])]]

\* extractRelevantChunk, for a content of one sentence within maxChunkSize:
\* the best chunk is the sentence, and without a matching term the content
extractRelevantChunk(content, queries) == content

\* the url filter, the sort, the slice and the formatting
WebsiteOutput(all, url, queries, limit) ==
    LET filteredResults == SelectSeq(all, LAMBDA r : StartsWith(r.url, url))
        topResults == Take(SortDesc(filteredResults,
                                    [i \in 1..Len(filteredResults) |->
                                        filteredResults[i].relevance]),
                           limit)
    IN  [i \in 1..Len(topResults) |->
            LET relevantChunk == extractRelevantChunk(topResults[i].content, queries)
                formatted == formatSearchResult([url |-> topResults[i].url,
                                                 content |-> relevantChunk,
                                                 distance |-> topResults[i].distance,
                                                 matchedQueries |-> <<>>])
            IN  [formatted EXCEPT !.matchedQueries =
                    SelectSeq(queries, LAMBDA q : q \in ContentTerms[relevantChunk])]]

\* the loop over queries from its state (allResults, seenDocuments): it
\* stops at the first turn after which allResults has limit entries
RECURSIVE WebsiteAllResults(_, _, _, _, _)
WebsiteAllResults(queries, url, limit, all, seen) ==
    IF queries = <<>> THEN all
    ELSE LET newResults == WebsiteNewResults(Head(queries), url, limit, seen)
             all2 == all \o newResults
         IN  IF Len(all2) >= limit THEN all2
             ELSE WebsiteAllResults(Tail(queries), url, limit, all2,
                                    seen \cup {newResults[i].url : i \in 1..Len(newResults)})

\* the jobs crawl() can leave in crawlJobs: failed without a page, completed
\* with pages, with or without recorded errors
CrawlOutcomes == {
    [status |-> "failed", pagesProcessed |-> 0,
     errors |-> << <<"Failed to process", SiteUrl>> >>],
    [status |-> "completed", pagesProcessed |-> 1, errors |-> <<>>],
    [status |-> "completed", pagesProcessed |-> 2,
     errors |-> << <<"Failed to process", SiteUrl \o <<"/", "x">> >> >>] }

InitWebsite ==
    /\ prog = "handleSearchWebsite"
    /\ IdleNorm
    /\ IdleCrawler
    /\ IdleRec
    /\ IdleIndex
    /\ IdleData
    /\ IdleExt
    /\ hArgs \in ToolArgs(BOOLEAN)
    /\ index \in Indexes
    /\ websiteDirs \in WebsiteDirs
    /\ mkdirs = {}
    /\ crawlJobs = <<>>
    /\ metadata = {}
    /\ indexed = {}
    /\ searches = <<>>
    /\ allResults = <<>>
    /\ seenDocuments = {}
    /\ hOut = NoOutcome
    /\ hpc = "called"

\* the handler that creates the base directories before it checks its args
SearchWebsiteInvalid_AfterDirs ==
    /\ prog = "handleSearchWebsite"
    /\ hpc = "called"
    /\ hArgs.url = <<>> \/ Len(hArgs.queries) < 3
    /\ mkdirs' = mkdirs \cup {"DATA_ROOT_DIR", "WEBSITES_DIR", "INDEX_DIR"}
    /\ hOut' = Thrown("InvalidParams",
                      <<"URL and at least 3 diverse search queries are required">>)
    /\ hpc' = "thrown"
    /\ UNCHANGED <<prog, idxVars, dataVars, extVars, normVars, crawlerVars, recVars, hArgs, index, websiteDirs,
                   crawlJobs, metadata, indexed, searches, allResults, seenDocuments>>

\* no url, or fewer than 3 queries: InvalidParams, thrown before the try block
SearchWebsiteInvalid ==
    /\ prog = "handleSearchWebsite"
    /\ hpc = "called"
    /\ hArgs.url = <<>> \/ Len(hArgs.queries) < 3
    /\ mkdirs' = mkdirs
    /\ hOut' = Thrown("InvalidParams",
                      <<"URL and at least 3 diverse search queries are required">>)
    /\ hpc' = "thrown"
    /\ UNCHANGED <<prog, idxVars, dataVars, extVars, normVars, crawlerVars, recVars, hArgs, index, websiteDirs,
                   crawlJobs, metadata, indexed, searches, allResults, seenDocuments>>

\* the base directories, then either the start of a crawl (the website
\* directory, the WebsiteCrawler and its job) or the use of the stored site
SearchWebsiteStart ==
    /\ prog = "handleSearchWebsite"
    /\ hpc = "called"
    /\ hArgs.url # <<>> /\ Len(hArgs.queries) >= 3
    /\ LET needsCrawling == hArgs.forceCrawl \/ hArgs.url \notin websiteDirs
       IN  IF needsCrawling
           THEN /\ mkdirs' = mkdirs \cup {"DATA_ROOT_DIR", "WEBSITES_DIR", "INDEX_DIR",
                                          "outputDir"}
                /\ websiteDirs' = websiteDirs \cup {hArgs.url}
                /\ crawlJobs' = Append(crawlJobs, [status |-> "running",
                                                   pagesProcessed |-> 0, errors |-> <<>>])
                /\ hpc' = "crawl"
           ELSE /\ mkdirs' = mkdirs \cup {"DATA_ROOT_DIR", "WEBSITES_DIR", "INDEX_DIR"}
                /\ hpc' = "search"
                /\ UNCHANGED <<websiteDirs, crawlJobs>>
    /\ UNCHANGED <<prog, idxVars, dataVars, extVars, normVars, crawlerVars, recVars, hArgs, index, metadata, indexed,
                   searches, allResults, seenDocuments, hOut>>

\* crawler.crawl() returns with a job that failed without a page: the
\* handler throws, and its catch wraps the error
CrawlFailedCompletely(outcome) ==
    /\ prog = "handleSearchWebsite"
    /\ hpc = "crawl"
    /\ outcome.status = "failed" /\ outcome.pagesProcessed = 0
    /\ crawlJobs' = [crawlJobs EXCEPT ![Len(crawlJobs)] = outcome]
    /\ hOut' = Caught([message |-> <<"Crawl failed completely">>])
    /\ hpc' = "thrown"
    /\ UNCHANGED <<prog, idxVars, dataVars, extVars, normVars, crawlerVars, recVars, hArgs, index, websiteDirs, mkdirs,
                   metadata, indexed, searches, allResults, seenDocuments>>

\* crawler.crawl() returns with pages processed and errors recorded: the
\* handler calls logger.warn, which the logger of utils.ts does not have
\* (info, error, debug), so a TypeError is thrown and the catch wraps it
CrawlCompletedWithErrors(outcome) ==
    /\ prog = "handleSearchWebsite"
    /\ hpc = "crawl"
    /\ ~(outcome.status = "failed" /\ outcome.pagesProcessed = 0)
    /\ Len(outcome.errors) > 0
    /\ crawlJobs' = [crawlJobs EXCEPT ![Len(crawlJobs)] = outcome]
    /\ hOut' = Caught([message |-> <<"logger.warn is not a function">>])
    /\ hpc' = "thrown"
    /\ UNCHANGED <<prog, idxVars, dataVars, extVars, normVars, crawlerVars, recVars, hArgs, index, websiteDirs, mkdirs,
                   metadata, indexed, searches, allResults, seenDocuments>>

\* crawler.crawl() returns with pages processed and no error: metadata.json
\* is written
CrawlCompleted(outcome) ==
    /\ prog = "handleSearchWebsite"
    /\ hpc = "crawl"
    /\ ~(outcome.status = "failed" /\ outcome.pagesProcessed = 0)
    /\ Len(outcome.errors) = 0
    /\ crawlJobs' = [crawlJobs EXCEPT ![Len(crawlJobs)] = outcome]
    /\ metadata' = metadata \cup {[url |-> hArgs.url, pagesCount |-> outcome.pagesProcessed]}
    /\ hpc' = "index"
    /\ UNCHANGED <<prog, idxVars, dataVars, extVars, normVars, crawlerVars, recVars, hArgs, index, websiteDirs, mkdirs,
                   indexed, searches, allResults, seenDocuments, hOut>>

\* db.indexDocuments(outputDir)
IndexDocuments ==
    /\ prog = "handleSearchWebsite"
    /\ hpc = "index"
    /\ indexed' = indexed \cup {hArgs.url}
    /\ hpc' = "search"
    /\ UNCHANGED <<prog, idxVars, dataVars, extVars, normVars, crawlerVars, recVars, hArgs, index, websiteDirs, mkdirs,
                   crawlJobs, metadata, searches, allResults, seenDocuments, hOut>>

\* one turn of the loop: db.search(q, limit * 2, url), the new results pushed
\* on allResults and marked as seen
SearchWebsiteQuery ==
    /\ prog = "handleSearchWebsite"
    /\ hpc = "search"
    /\ Len(searches) < Len(hArgs.queries)
    /\ searches = <<>> \/ Len(allResults) < hArgs.limit
    /\ LET q == hArgs.queries[Len(searches) + 1]
           newResults == WebsiteNewResults(q, hArgs.url, hArgs.limit, seenDocuments)
       IN  /\ searches' = Append(searches, [query |-> q, limit |-> hArgs.limit * 2,
                                             baseUrl |-> hArgs.url])
           /\ allResults' = allResults \o newResults
           /\ seenDocuments' = seenDocuments \cup
                                  {newResults[i].url : i \in 1..Len(newResults)}
    /\ UNCHANGED <<prog, idxVars, dataVars, extVars, normVars, crawlerVars, recVars, hArgs, index, websiteDirs, mkdirs,
                   crawlJobs, metadata, indexed, hOut, hpc>>

\* the loop ended (no query left, or the break): filter, sort, slice, format
SearchWebsiteReturn ==
    /\ prog = "handleSearchWebsite"
    /\ hpc = "search"
    /\ \/ Len(searches) = Len(hArgs.queries)
       \/ searches # <<>> /\ Len(allResults) >= hArgs.limit
    /\ hOut' = Returned(WebsiteOutput(allResults, hArgs.url, hArgs.queries, hArgs.limit))
    /\ hpc' = "returned"
    /\ UNCHANGED <<prog, idxVars, dataVars, extVars, normVars, crawlerVars, recVars, hArgs, index, websiteDirs, mkdirs,
                   crawlJobs, metadata, indexed, searches, allResults, seenDocuments>>

NextWebsite ==
    \/ SearchWebsiteInvalid
    \/ SearchWebsiteStart
    \/ \E outcome \in CrawlOutcomes : CrawlFailedCompletely(outcome)
    \/ \E outcome \in CrawlOutcomes : CrawlCompletedWithErrors(outcome)
    \/ \E outcome \in CrawlOutcomes : CrawlCompleted(outcome)
    \/ IndexDocuments
    \/ SearchWebsiteQuery
    \/ SearchWebsiteReturn

SpecWebsite == InitWebsite /\ [][NextWebsite]_vars

\* either handler
InitTools == InitExisting \/ InitWebsite

NextTools == NextExisting \/ NextWebsite

SpecTools == InitTools /\ [][NextTools]_vars

\* ------------------------------------------------ a session of the server
MaxCalls == 2       \* most calls of the handlers in a session

\* the next request of the client, after the handler of the last one ended:
\* the same url, queries and limit; the directories, the metadata files and
\* the index stay as the last call left them
CallAgain(handler, forceCrawl) ==
    /\ prog \in {"handleSearchWebsite", "handleSearchExistingData"}
    /\ hpc \in {"thrown", "returned"}
    /\ Len(hLog) < MaxCalls - 1
    /\ hLog' = Append(hLog, [prog |-> prog, args |-> hArgs, out |-> hOut])
    /\ prog' = handler
    /\ hArgs' = [hArgs EXCEPT !.forceCrawl = forceCrawl]
    /\ searches' = <<>>
    /\ allResults' = <<>>
    /\ seenDocuments' = {}
    /\ hOut' = NoOutcome
    /\ hpc' = "called"
    /\ UNCHANGED <<idxVars, dataVars, normVars, crawlerVars, recVars, qdrantVars, instVars,
                   splitVars, pageVars, index, websiteDirs, mkdirs, crawlJobs, metadata, indexed>>

NextSession ==
    \/ NextTools
    \/ \E forceCrawl \in BOOLEAN : CallAgain("handleSearchWebsite", forceCrawl)
    \/ CallAgain("handleSearchExistingData", FALSE)

SpecSession == InitWebsite /\ [][NextSession]_vars

\* ------------------------------ program 5: IndexDatabase.indexDocuments
MaxFiles == 3       \* most files of a source directory

MaxRuns == 2        \* most runs of indexDocuments on the directory

\* the files a source directory can hold, in the order readdirSync gives
\* them, and what indexDocuments finds in them: "ok" parses and has content
\* in so many chunks, "repaired" parses once put in braces, "malformed" does
\* not parse, "empty" has no content or "", "blank" has a content of
\* whitespace
SourceListing == <<
    [name |-> "b", ext |-> ".json", kind |-> "malformed", url |-> <<>>, chunks |-> 0],
    [name |-> "a", ext |-> ".json", kind |-> "ok", url |-> <<"O", "/", "x">>, chunks |-> 2],
    [name |-> "e", ext |-> ".json", kind |-> "blank", url |-> <<"O", "/", "y">>, chunks |-> 0],
    [name |-> "a", ext |-> ".jsonX", kind |-> "ok", url |-> <<"O", "/", "y">>, chunks |-> 1],
    [name |-> "c", ext |-> ".json", kind |-> "empty", url |-> <<"O", "/", "z">>, chunks |-> 0],
    [name |-> "d", ext |-> ".json", kind |-> "repaired", url |-> <<"O", "/", "x">>, chunks |-> 1],
    [name |-> "f", ext |-> ".json", kind |-> "ok", url |-> <<"O", "/", "z">>, chunks |-> 1] >>

SourceFiles == Range(SourceListing)

\* the files at the places S of the listing, in its order
RECURSIVE Listed(_)
Listed(S) ==
    IF S = {} THEN <<>>
    ELSE LET i == CHOOSE i \in S : \A j \in S : j <= i
         IN  Append(Listed(S \ {i}), SourceListing[i])

\* readdirSync: the .json and .jsonX files of a directory
Directories ==
    {Listed(S) : S \in {T \in SUBSET (1..Len(SourceListing)) : Cardinality(T) <= MaxFiles}}

\* path.basename(file, ext) + ".index.json"
IndexNames == {f.name : f \in SourceFiles}

Absent == [state |-> "absent", chunks |-> <<>>, was |-> <<>>]

\* a file opened for writing and not yet written: it is cut to length 0,
\* and holds a beginning of the JSON text until the write ends; was keeps
\* the chunks it held before
Truncated(content) == [state |-> "partial", chunks |-> <<>>, was |-> content.chunks]

\* the write that adds the chunks to those the file held
Written_Append(content, documentChunks) ==
    [state |-> "whole", chunks |-> content.was \o documentChunks, was |-> <<>>]

\* the file once fs.promises.writeFile has ended
Written(content, documentChunks) ==
    [state |-> "whole", chunks |-> documentChunks, was |-> <<>>]

\* const documentChunks
DocumentChunks(f, emb) ==
    [i \in 1..f.chunks |->
        [id |-> <<f.url, i>>, url |-> f.url, content |-> <<f.name, f.ext, i>>,
         embedding |-> emb]]

\* what search gets from an index file: JSON.parse throws on a text that is
\* cut short, and the file is passed over
ReadChunks(content) == IF content.state = "whole" THEN content.chunks ELSE <<>>

Parses(f) == f.kind \in {"ok", "repaired"}

InitIndex ==
    /\ prog = "indexDocuments"
    /\ IdleNorm
    /\ IdleCrawler
    /\ IdleRec
    /\ IdleTools
    /\ IdleData
    /\ IdleExt
    /\ sourceDir \in Directories
    /\ indexFiles = [n \in IndexNames |-> Absent]
    /\ filePos = 0
    /\ totalProcessed = 0
    /\ embeddings = "none"
    /\ embLog = {}
    /\ runs = <<>>
    /\ observed = NoRead
    /\ ipc = "called"

\* no .json or .jsonX file: return 0
IndexNoFiles ==
    /\ prog = "indexDocuments"
    /\ ipc = "called"
    /\ sourceDir = <<>>
    /\ runs' = Append(runs, [returned |-> 0, dir |-> sourceDir, index |-> indexFiles,
                             failed |-> {}])
    /\ ipc' = "returned"
    /\ UNCHANGED <<prog, normVars, crawlerVars, recVars, toolVars, dataVars, extVars, sourceDir,
                   indexFiles, filePos, totalProcessed, embeddings, embLog, observed>>

\* let totalProcessed = 0, and the first turn of the loop over files
IndexStart ==
    /\ prog = "indexDocuments"
    /\ ipc = "called"
    /\ sourceDir # <<>>
    /\ filePos' = 1
    /\ totalProcessed' = 0
    /\ embLog' = {}
    /\ ipc' = "loop"
    /\ UNCHANGED <<prog, normVars, crawlerVars, recVars, toolVars, dataVars, extVars, sourceDir,
                   indexFiles, embeddings, runs, observed>>

\* a skipped document that ends the loop
SkipDocument_Abort ==
    /\ prog = "indexDocuments"
    /\ ipc = "loop"
    /\ filePos <= Len(sourceDir)
    /\ ~Parses(sourceDir[filePos])
    /\ filePos' = Len(sourceDir) + 1
    /\ UNCHANGED <<prog, normVars, crawlerVars, recVars, toolVars, dataVars, extVars, sourceDir,
                   indexFiles, totalProcessed, embeddings, embLog, runs, observed, ipc>>

\* a file that does not parse, or without content: continue
SkipDocument ==
    /\ prog = "indexDocuments"
    /\ ipc = "loop"
    /\ filePos <= Len(sourceDir)
    /\ ~Parses(sourceDir[filePos])
    /\ filePos' = filePos + 1
    /\ UNCHANGED <<prog, normVars, crawlerVars, recVars, toolVars, dataVars, extVars, sourceDir,
                   indexFiles, totalProcessed, embeddings, embLog, runs, observed, ipc>>

\* an embedding call whose failure passes over the document
CreateEmbeddings_Abort(ok) ==
    /\ prog = "indexDocuments"
    /\ ipc = "loop"
    /\ filePos <= Len(sourceDir)
    /\ Parses(sourceDir[filePos])
    /\ IF ok
       THEN embeddings' = "real" /\ ipc' = "write" /\ UNCHANGED <<embLog, filePos>>
       ELSE /\ embLog' = embLog \cup {filePos}
            /\ filePos' = filePos + 1
            /\ UNCHANGED <<embeddings, ipc>>
    /\ UNCHANGED <<prog, normVars, crawlerVars, recVars, toolVars, dataVars, extVars, sourceDir,
                   indexFiles, totalProcessed, runs, observed>>

\* await this.createEmbeddings(document.content): the embeddings of the
\* chunks, or, when a call to the embedding service fails, zero vectors
CreateEmbeddings(ok) ==
    /\ prog = "indexDocuments"
    /\ ipc = "loop"
    /\ filePos <= Len(sourceDir)
    /\ Parses(sourceDir[filePos])
    /\ embeddings' = IF ok THEN "real" ELSE "zero"
    /\ embLog' = IF ok THEN embLog ELSE embLog \cup {filePos}
    /\ filePos' = filePos
    /\ ipc' = "write"
    /\ UNCHANGED <<prog, normVars, crawlerVars, recVars, toolVars, dataVars, extVars, sourceDir,
                   indexFiles, totalProcessed, runs, observed>>

\* fs.promises.writeFile opens the index file with flag 'w'
WriteOpen ==
    /\ prog = "indexDocuments"
    /\ ipc = "write"
    /\ indexFiles' = [indexFiles EXCEPT ![sourceDir[filePos].name] = Truncated(@)]
    /\ ipc' = "writing"
    /\ UNCHANGED <<prog, normVars, crawlerVars, recVars, toolVars, dataVars, extVars, sourceDir,
                   filePos, totalProcessed, embeddings, embLog, runs, observed>>

\* the write ends: totalProcessed += documentChunks.length, next turn
WriteDone ==
    /\ prog = "indexDocuments"
    /\ ipc = "writing"
    /\ LET f == sourceDir[filePos]
       IN  /\ indexFiles' = [indexFiles EXCEPT
                                ![f.name] = Written(@, DocumentChunks(f, embeddings))]
           /\ totalProcessed' = totalProcessed + f.chunks
    /\ filePos' = filePos + 1
    /\ embeddings' = "none"
    /\ ipc' = "loop"
    /\ UNCHANGED <<prog, normVars, crawlerVars, recVars, toolVars, dataVars, extVars, sourceDir,
                   embLog, runs, observed>>

\* return totalProcessed
IndexReturn ==
    /\ prog = "indexDocuments"
    /\ ipc = "loop"
    /\ filePos > Len(sourceDir)
    /\ runs' = Append(runs, [returned |-> totalProcessed, dir |-> sourceDir,
                             index |-> indexFiles, failed |-> embLog])
    /\ ipc' = "returned"
    /\ UNCHANGED <<prog, normVars, crawlerVars, recVars, toolVars, dataVars, extVars, sourceDir,
                   indexFiles, filePos, totalProcessed, embeddings, embLog, observed>>

\* indexDocuments is called again on the same directory
IndexAgain ==
    /\ prog = "indexDocuments"
    /\ ipc = "returned"
    /\ Len(runs) < MaxRuns
    /\ ipc' = "called"
    /\ UNCHANGED <<prog, normVars, crawlerVars, recVars, toolVars, dataVars, extVars, sourceDir,
                   indexFiles, filePos, totalProcessed, embeddings, embLog, runs, observed>>

\* the output directory of another website whose pages have the same
\* pathnames: savePage names a file after the pathname of its page only
OtherSite(dir) ==
    [i \in 1..Len(dir) |->
        [dir[i] EXCEPT !.url = IF @ = <<>> THEN @
                               ELSE IF @[1] = "O" THEN <<"P">> \o Tail(@)
                               ELSE <<"O">> \o Tail(@)]]

\* indexDocuments is called on the output directory of another website
IndexOtherSite ==
    /\ prog = "indexDocuments"
    /\ ipc = "returned"
    /\ Len(runs) < MaxRuns
    /\ sourceDir' = OtherSite(sourceDir)
    /\ ipc' = "called"
    /\ UNCHANGED <<prog, normVars, crawlerVars, recVars, toolVars, dataVars, extVars,
                   indexFiles, filePos, totalProcessed, embeddings, embLog, runs, observed>>

\* a search of another request reads the index files (readdirSync and
\* readFileSync, without an await between them) while indexDocuments waits
\* for its embeddings or its write; before and after are the index without
\* and with the write in progress
SearchReads ==
    /\ prog = "indexDocuments"
    /\ ipc \in {"write", "writing"}
    /\ observed = NoRead
    /\ LET f == sourceDir[filePos]
           old == IF ipc = "writing" THEN indexFiles[f.name].was
                  ELSE indexFiles[f.name].chunks
       IN  observed' = [kind |-> "read",
                        during |-> ipc,
                        url |-> f.url,
                        files |-> [n \in IndexNames |-> ReadChunks(indexFiles[n])],
                        before |-> [n \in IndexNames |->
                                       IF n = f.name THEN old
                                       ELSE ReadChunks(indexFiles[n])],
                        after |-> [n \in IndexNames |->
                                      IF n = f.name THEN DocumentChunks(f, embeddings)
                                      ELSE ReadChunks(indexFiles[n])]]
    /\ UNCHANGED <<prog, normVars, crawlerVars, recVars, toolVars, dataVars, extVars, sourceDir,
                   indexFiles, filePos, totalProcessed, embeddings, embLog, runs, ipc>>

NextIndex ==
    \/ IndexNoFiles
    \/ IndexStart
    \/ SkipDocument
    \/ \E ok \in BOOLEAN : CreateEmbeddings(ok)
    \/ WriteOpen
    \/ WriteDone
    \/ IndexReturn
    \/ IndexAgain
    \/ SearchReads

SpecIndex == InitIndex /\ [][NextIndex]_vars

\* the runs of indexDocuments on the output directories of two websites
NextSites == NextIndex \/ IndexOtherSite

SpecSites == InitIndex /\ [][NextSites]_vars

\* ------------------------------- program 6: chunkMarkdownSlidingWindow
MaxWords == 1000    \* most words of a markdown text

chunkSize == 500

overlap == 65

\* a string is a sequence of tokens: Space is a run of whitespace, k > 0 is
\* a word of the text
Space == 0

\* the text of n words, with or without whitespace before and after
Text(lead, n, trail) ==
    IF n = 0 THEN (IF lead \/ trail THEN <<Space>> ELSE <<>>)
    ELSE (IF lead THEN <<Space>> ELSE <<>>)
         \o [i \in 1..(2 * n - 1) |-> IF i % 2 = 1 THEN (i + 1) \div 2 ELSE Space]
         \o (IF trail THEN <<Space>> ELSE <<>>)

Markdowns == {Text(lead, n, trail) : lead \in BOOLEAN, n \in 0..MaxWords, trail \in BOOLEAN}

\* str.split(/\s+/): the parts between the runs of whitespace, the empty
\* parts at both ends included
Split(str) ==
    LET seps == SelectSeq([i \in 1..Len(str) |-> i], LAMBDA i : str[i] = Space)
        bound(j) == IF j = 0 THEN 0
                    ELSE IF j > Len(seps) THEN Len(str) + 1 ELSE seps[j]
    IN  [j \in 1..(Len(seps) + 1) |-> SubSeq(str, bound(j - 1) + 1, bound(j) - 1)]

\* arr.join(" ")
RECURSIVE Join(_)
Join(arr) ==
    IF arr = <<>> THEN <<>>
    ELSE IF Len(arr) = 1 THEN arr[1]
    ELSE LET h == Len(arr) \div 2
         IN  Join(SubSeq(arr, 1, h)) \o <<Space>> \o Join(SubSeq(arr, h + 1, Len(arr)))

\* the loop with windows that do not overlap
Windows_NoOverlap(words, start) ==
    [k \in 1..((Len(words) + chunkSize - 1) \div chunkSize) |->
        Join(SubSeq(words, (k - 1) * chunkSize + 1, Min(k * chunkSize, Len(words))))]

\* the loop: for (let start = 0; start < words.length; start += chunkSize - overlap)
RECURSIVE Windows(_, _)
Windows(words, start) ==
    IF start >= Len(words) THEN <<>>
    ELSE LET end == Min(start + chunkSize, Len(words))
             chunk == Join(SubSeq(words, start + 1, end))
         IN  IF end = Len(words) THEN <<chunk>>
             ELSE <<chunk>> \o Windows(words, start + chunkSize - overlap)

chunkMarkdownSlidingWindow(text) == Windows(Split(text), 0)

InitChunk ==
    /\ prog = "chunkMarkdownSlidingWindow"
    /\ IdleNorm
    /\ IdleCrawler
    /\ IdleRec
    /\ IdleTools
    /\ IdleIndex
    /\ IdleExt
    /\ markdown \in Markdowns
    /\ chunks = <<>>
    /\ vec1 = <<>>
    /\ vec2 = <<>>
    /\ cosOut = <<>>
    /\ dpc = "called"

ChunkCall ==
    /\ prog = "chunkMarkdownSlidingWindow"
    /\ dpc = "called"
    /\ chunks' = chunkMarkdownSlidingWindow(markdown)
    /\ dpc' = "returned"
    /\ UNCHANGED <<prog, normVars, crawlerVars, recVars, toolVars, idxVars, extVars, markdown,
                   vec1, vec2, cosOut>>

SpecChunk == InitChunk /\ [][ChunkCall]_vars

\* --------------------- program 7: IndexDatabase.computeCosineSimilarity
MaxDim == 2         \* most components of a vector

MaxComponent == 4   \* largest absolute value of a component

FloatBits == 8      \* bits of precision of a Number (a double has 53)

\* a Number is sign * m * 2^e with 2^(FloatBits-1) <= m < 2^FloatBits, or
\* zero; every operation is rounded to the nearest Number, ties to even.
\* Exponents are not bounded: no overflow to Infinity, no underflow.
RECURSIVE Pow2(_)
Pow2(k) == IF k = 0 THEN 1 ELSE 2 * Pow2(k - 1)

Zero == [s |-> 0, m |-> 0, e |-> 0]

BitLen(n) == CHOOSE k \in 1..31 : Pow2(k - 1) <= n /\ n < Pow2(k)

\* the Number nearest to n * 2^e, for an integer n > 0
RoundInt(n, e) ==
    LET bits == BitLen(n)
    IN  IF bits <= FloatBits
        THEN [s |-> 1, m |-> n * Pow2(FloatBits - bits), e |-> e - (FloatBits - bits)]
        ELSE LET sh == bits - FloatBits
                 q == n \div Pow2(sh)
                 r == n % Pow2(sh)
                 half == Pow2(sh - 1)
                 up == r > half \/ (r = half /\ q % 2 = 1)
                 q2 == IF up THEN q + 1 ELSE q
             IN  IF q2 = Pow2(FloatBits)
                 THEN [s |-> 1, m |-> Pow2(FloatBits - 1), e |-> e + sh + 1]
                 ELSE [s |-> 1, m |-> q2, e |-> e + sh]

Signed(sign, x) == IF x.m = 0 THEN Zero ELSE [x EXCEPT !.s = sign]

FromInt(i) ==
    IF i = 0 THEN Zero
    ELSE IF i > 0 THEN RoundInt(i, 0) ELSE Signed(-1, RoundInt(-i, 0))

\* a * b
Mul(a, b) ==
    IF a.m = 0 \/ b.m = 0 THEN Zero
    ELSE Signed(a.s * b.s, RoundInt(a.m * b.m, a.e + b.e))

\* a + b
Add(a, b) ==
    IF a.m = 0 THEN b
    ELSE IF b.m = 0 THEN a
    ELSE LET emin == Min(a.e, b.e)
             n == a.s * a.m * Pow2(a.e - emin) + b.s * b.m * Pow2(b.e - emin)
         IN  IF n = 0 THEN Zero
             ELSE IF n > 0 THEN RoundInt(n, emin) ELSE Signed(-1, RoundInt(-n, emin))

\* Math.sqrt(a), for a >= 0
Sqrt(a) ==
    IF a.m = 0 THEN Zero
    ELSE LET t == IF (a.e - FloatBits) % 2 = 0 THEN FloatBits ELSE FloatBits - 1
             M == a.m * Pow2(t)
             r == CHOOSE r \in Pow2(FloatBits - 1)..(Pow2(FloatBits) - 1) :
                     r * r <= M /\ M < (r + 1) * (r + 1)
             r2 == IF M - r * r > r THEN r + 1 ELSE r
         IN  RoundInt(r2, (a.e - t) \div 2)

\* a / b, for b # 0
Div(a, b) ==
    IF a.m = 0 THEN Zero
    ELSE LET N == a.m * Pow2(FloatBits + 1)
             Q == N \div b.m
             sticky == IF N % b.m = 0 THEN 0 ELSE 1
         IN  Signed(a.s * b.s, RoundInt(2 * Q + sticky, a.e - b.e - FloatBits - 2))

\* the loop over the components: the sum of the products, from the left
RECURSIVE Dot(_, _)
Dot(v, w) ==
    IF v = <<>> \/ w = <<>> THEN Zero
    ELSE Add(Dot(SubSeq(v, 1, Len(v) - 1), SubSeq(w, 1, Len(v) - 1)),
             Mul(FromInt(v[Len(v)]), FromInt(w[Len(v)])))

\* the function without the square roots
computeCosineSimilarity_NoSqrt(v, w) ==
    LET dotProduct == Dot(v, w)
        mag1 == Dot(v, v)
        mag2 == Dot(w, w)
    IN  IF mag1.m = 0 \/ mag2.m = 0 THEN Zero
        ELSE Div(dotProduct, Mul(mag1, mag2))

computeCosineSimilarity(v, w) ==
    LET dotProduct == Dot(v, w)
        mag1 == Sqrt(Dot(v, v))
        mag2 == Sqrt(Dot(w, w))
    IN  IF mag1.m = 0 \/ mag2.m = 0 THEN Zero
        ELSE Div(dotProduct, Mul(mag1, mag2))

Vectors == SeqsUpTo(-MaxComponent..MaxComponent, MaxDim)

Negated(v) == [i \in 1..Len(v) |-> 0 - v[i]]

Reversed(v) == [i \in 1..Len(v) |-> v[Len(v) + 1 - i]]

InitCosine ==
    /\ prog = "computeCosineSimilarity"
    /\ IdleNorm
    /\ IdleCrawler
    /\ IdleRec
    /\ IdleTools
    /\ IdleIndex
    /\ IdleExt
    /\ markdown = <<>>
    /\ chunks = <<>>
    /\ vec1 \in Vectors
    /\ vec2 \in {vec1, Negated(vec1), Reversed(vec1), [i \in 1..Len(vec1) |-> 0]}
    /\ cosOut = <<>>
    /\ dpc = "called"

CosineCall ==
    /\ prog = "computeCosineSimilarity"
    /\ dpc = "called"
    /\ cosOut' = computeCosineSimilarity(vec1, vec2)
    /\ dpc' = "returned"
    /\ UNCHANGED <<prog, normVars, crawlerVars, recVars, toolVars, idxVars, extVars, markdown,
                   chunks, vec1, vec2>>

SpecCosine == InitCosine /\ [][CosineCall]_vars

\* ------------- program 8: crawlSingleUrl (crawling.ts) / saveChunksToQdrant
MaxSaves == 2       \* most calls for the url

MaxUuids == 4       \* number of values crypto.randomUUID() can return

BATCH_SIZE == 20

Uuids == 1..MaxUuids

\* the markdown of a page: empty, whitespace, one word, and more words than
\* one window holds
QdrantTexts == {<<>>, <<Space>>, Text(FALSE, 1, FALSE), Text(FALSE, chunkSize + 1, TRUE)}

\* f with the value v at x
Put(f, x, v) == [y \in DOMAIN f \cup {x} |-> IF y = x THEN v ELSE f[y]]

\* qdrant.upsert(COLLECTION_NAME, { points: batch }): every point is stored
\* under its id, in place of the point that had this id
RECURSIVE Upserted(_, _)
Upserted(points, batch) ==
    IF batch = <<>> THEN points
    ELSE Upserted(Put(points, Head(batch).id, Head(batch).payload), Tail(batch))

InitQdrant ==
    /\ prog = "saveChunksToQdrant"
    /\ IdleNorm
    /\ IdleCrawler
    /\ IdleRec
    /\ IdleTools
    /\ IdleIndex
    /\ IdleData
    /\ IdleInst
    /\ IdleSplit
    /\ IdleSess
    /\ IdlePage
    /\ qArgs \in [url : {PageUrl}, markdown : QdrantTexts]
    /\ qDisk = <<>>
    /\ qAllPoints = <<>>
    /\ qPoints = <<>>
    /\ qLog = <<>>
    /\ qpc = "called"

\* crawlSingleUrl: the chunks of the markdown, each saved to disk in a file
\* named after the url and the ordinal of the chunk; then saveChunksToQdrant
\* is called
SaveContentToDisk ==
    /\ prog = "saveChunksToQdrant"
    /\ qpc = "called"
    /\ LET chunkTexts == chunkMarkdownSlidingWindow(qArgs.markdown)
       IN  qDisk' = [name \in DOMAIN qDisk \cup {<<qArgs.url, idx - 1>> : idx \in 1..Len(chunkTexts)} |->
                        IF name[1] = qArgs.url /\ name[2] < Len(chunkTexts)
                        THEN chunkTexts[name[2] + 1] ELSE qDisk[name]]
    /\ qpc' = "save"
    /\ UNCHANGED <<prog, normVars, crawlerVars, recVars, toolVars, idxVars, dataVars, sessVars, pageVars, instVars,
                   splitVars, qArgs, qAllPoints, qPoints, qLog>>

\* saveChunksToQdrant: loadEmbedder or an embedChunk call rejects, and the
\* function throws before any point is built
EmbedFails ==
    /\ prog = "saveChunksToQdrant"
    /\ qpc = "save"
    /\ qLog' = Append(qLog, [thrown |-> TRUE, upserted |-> FALSE, points |-> qPoints])
    /\ qpc' = "returned"
    /\ UNCHANGED <<prog, normVars, crawlerVars, recVars, toolVars, idxVars, dataVars, sessVars, pageVars, instVars,
                   splitVars, qArgs, qDisk, qAllPoints, qPoints>>

\* saveChunksToQdrant: the chunks, their embeddings, and const allPoints,
\* one point for each chunk with crypto.randomUUID() as its id
BuildPoints(ids) ==
    /\ prog = "saveChunksToQdrant"
    /\ qpc = "save"
    /\ LET chunkTexts == chunkMarkdownSlidingWindow(qArgs.markdown)
       IN  /\ DOMAIN ids = 1..Len(chunkTexts)
           /\ qAllPoints' = [idx \in 1..Len(chunkTexts) |->
                                [id |-> ids[idx],
                                 payload |-> [url |-> qArgs.url,
                                              chunk_id |-> <<qArgs.url, idx - 1>>,
                                              content |-> chunkTexts[idx]]]]
    /\ qpc' = "upsert"
    /\ UNCHANGED <<prog, normVars, crawlerVars, recVars, toolVars, idxVars, dataVars, sessVars, pageVars, instVars,
                   splitVars, qArgs, qDisk, qPoints, qLog>>

\* saveChunksToQdrant: the loop over the batches of allPoints (here one
\* batch at most, allPoints being shorter than BATCH_SIZE); a failed upsert
\* is logged and the function returns as after a successful one
Upsert(ok) ==
    /\ prog = "saveChunksToQdrant"
    /\ qpc = "upsert"
    /\ Len(qAllPoints) <= BATCH_SIZE
    /\ \E stored \in {IF ok THEN Upserted(qPoints, qAllPoints) ELSE qPoints} :
          /\ qPoints' = stored
          /\ qLog' = Append(qLog, [thrown |-> FALSE, upserted |-> ok, points |-> stored])
    /\ qpc' = "returned"
    /\ UNCHANGED <<prog, normVars, crawlerVars, recVars, toolVars, idxVars, dataVars, sessVars, pageVars, instVars,
                   splitVars, qArgs, qDisk, qAllPoints>>

\* the page is crawled again with the same content
SaveAgain ==
    /\ prog = "saveChunksToQdrant"
    /\ qpc = "returned"
    /\ Len(qLog) < MaxSaves
    /\ qAllPoints' = <<>>
    /\ qpc' = "called"
    /\ UNCHANGED <<prog, normVars, crawlerVars, recVars, toolVars, idxVars, dataVars, sessVars, pageVars, instVars,
                   splitVars, qArgs, qDisk, qPoints, qLog>>

NextQdrant ==
    \/ SaveContentToDisk
    \/ EmbedFails
    \/ \E ids \in UNION {[1..n -> Uuids] : n \in 0..2} : BuildPoints(ids)
    \/ \E ok \in BOOLEAN : Upsert(ok)
    \/ SaveAgain

SpecQdrant == InitQdrant /\ [][NextQdrant]_vars

\* ------------------------------ program 9: IndexDatabase.getInstance
MaxCallers == 3     \* number of callers of getInstance

Callers == 1..MaxCallers

Idle == [pc |-> "idle"]

\* what a caller holds once its await of getInstance() has ended: the
\* instance as it is at that moment
Got(inst, dir) == [pc |-> "got", openai |-> inst.openai, ensured |-> dir = "exists"]

InitInstance ==
    /\ prog = "getInstance"
    /\ IdleNorm
    /\ IdleCrawler
    /\ IdleRec
    /\ IdleTools
    /\ IdleIndex
    /\ IdleData
    /\ IdleQdrant
    /\ IdleSplit
    /\ IdleSess
    /\ IdlePage
    /\ instance = Null
    /\ indexDir \in {"missing", "exists"}
    /\ callers = [c \in Callers |-> Idle]

\* getInstance finds no instance: it assigns a new IndexDatabase to
\* IndexDatabase.instance and awaits initialize().  With the directory on
\* disk, ensureDirectory awaits nothing and initialize sets the client in
\* the next microtask, before any other caller resumes; without it,
\* initialize waits for fs.promises.mkdir
GetInstanceFirst(c) ==
    /\ prog = "getInstance"
    /\ callers[c] = Idle
    /\ instance = Null
    /\ IF indexDir = "exists"
       THEN /\ instance' = [openai |-> TRUE]
            /\ callers' = [callers EXCEPT ![c] = Got([openai |-> TRUE], indexDir)]
       ELSE /\ instance' = [openai |-> FALSE]
            /\ callers' = [callers EXCEPT ![c] = [pc |-> "initialize"]]
    /\ UNCHANGED <<prog, normVars, crawlerVars, recVars, toolVars, idxVars, dataVars, sessVars, pageVars, qdrantVars, splitVars,
                   indexDir>>

\* getInstance finds IndexDatabase.instance set and returns it
GetInstance(c) ==
    /\ prog = "getInstance"
    /\ callers[c] = Idle
    /\ instance # Null
    /\ callers' = [callers EXCEPT ![c] = Got(instance, indexDir)]
    /\ UNCHANGED <<prog, normVars, crawlerVars, recVars, toolVars, idxVars, dataVars, sessVars, pageVars, qdrantVars, splitVars,
                   instance, indexDir>>

\* initialize: mkdir ends, the OpenAI client is set, and the first caller
\* gets the instance
InitializeDone(c) ==
    /\ prog = "getInstance"
    /\ callers[c].pc = "initialize"
    /\ indexDir' = "exists"
    /\ instance' = [openai |-> TRUE]
    /\ callers' = [callers EXCEPT ![c] = Got([openai |-> TRUE], "exists")]
    /\ UNCHANGED <<prog, normVars, crawlerVars, recVars, toolVars, idxVars, dataVars, sessVars, pageVars, qdrantVars, splitVars>>

\* initialize: mkdir fails, ensureDirectory throws and getInstance rejects;
\* IndexDatabase.instance keeps the object without its client
InitializeFails(c) ==
    /\ prog = "getInstance"
    /\ callers[c].pc = "initialize"
    /\ callers' = [callers EXCEPT ![c] = [pc |-> "threw"]]
    /\ UNCHANGED <<prog, normVars, crawlerVars, recVars, toolVars, idxVars, dataVars, sessVars, pageVars, qdrantVars, splitVars,
                   instance, indexDir>>

\* a caller uses its instance: createEmbeddings throws when this.openai is
\* not set
CreateEmbeddingsCall(c) ==
    /\ prog = "getInstance"
    /\ callers[c].pc = "got"
    /\ callers' = [callers EXCEPT ![c] =
                      [@ EXCEPT !.pc = IF instance.openai THEN "embedding"
                                       ELSE "OpenAI client not initialized"]]
    /\ UNCHANGED <<prog, normVars, crawlerVars, recVars, toolVars, idxVars, dataVars, sessVars, pageVars, qdrantVars, splitVars,
                   instance, indexDir>>

NextInstance ==
    \/ \E c \in Callers : GetInstanceFirst(c)
    \/ \E c \in Callers : GetInstance(c)
    \/ \E c \in Callers : InitializeDone(c)
    \/ \E c \in Callers : InitializeFails(c)
    \/ \E c \in Callers : CreateEmbeddingsCall(c)

SpecInstance == InitInstance /\ [][NextInstance]_vars

\* --------------------------- program 10: IndexDatabase.splitIntoChunks
MaxPieces == 2      \* most pieces of a text

maxChunkSize == 6000

\* a character of a text: Space, Stop (one of . ! ?), or k > 0, a letter
Stop == -1

\* the lengths of a run of letters: short, and half of maxChunkSize
RunLengths == {1, maxChunkSize \div 2}

\* a piece of a text: whitespace or not, a run of the letter k, and no, one
\* or two sentence terminators
Piece(k, sp, n, stops) ==
    (IF sp THEN <<Space>> ELSE <<>>) \o [i \in 1..n |-> k] \o [i \in 1..stops |-> Stop]

PieceKinds == BOOLEAN \X RunLengths \X (0..2)

RECURSIVE Pieces(_, _)
Pieces(kinds, k) ==
    IF kinds = <<>> THEN <<>>
    ELSE Piece(k, Head(kinds)[1], Head(kinds)[2], Head(kinds)[3]) \o Pieces(Tail(kinds), k + 1)

\* the contents indexDocuments passes on: texts that are not blank, with or
\* without a terminator in front
SplitTexts ==
    {lead \o Pieces(kinds, 1) :
        lead \in {<<>>, <<Stop>>}, kinds \in SeqsUpTo(PieceKinds, MaxPieces)} \ {<<>>}

\* text.match(/[^.!?]+[.!?]+/g): the matches from left to right, each the
\* characters after the match before it up to the end of the next run of
\* terminators; terminators at the start of the text are in no match, nor
\* are the characters after the last terminator; null without a match
Match(text) ==
    LET stops == SelectSeq([i \in 1..Len(text) |-> i], LAMBDA i : text[i] = Stop)
        ends == SelectSeq(stops, LAMBDA i : i = Len(text) \/ text[i + 1] # Stop)
        from(j) == IF j = 1 THEN 1 ELSE ends[j - 1] + 1
        found == SelectSeq([j \in 1..Len(ends) |-> j], LAMBDA j : text[from(j)] # Stop)
    IN  [m \in 1..Len(found) |-> SubSeq(text, from(found[m]), ends[found[m]])]

\* str.trim()
RECURSIVE Trim(_)
Trim(str) ==
    IF str = <<>> THEN str
    ELSE IF Head(str) = Space THEN Trim(Tail(str))
    ELSE IF str[Len(str)] = Space THEN Trim(SubSeq(str, 1, Len(str) - 1))
    ELSE str

\* the loop over the sentences, and the push of the last chunk
RECURSIVE Fill(_, _, _, _)
Fill(sentences, currentChunk, out, size) ==
    IF sentences = <<>>
    THEN (IF Len(Trim(currentChunk)) > 0 THEN Append(out, Trim(currentChunk)) ELSE out)
    ELSE LET sentence == Head(sentences)
         IN  IF Len(currentChunk \o sentence) > size /\ Len(currentChunk) > 0
             THEN Fill(Tail(sentences), sentence \o <<Space>>,
                       Append(out, Trim(currentChunk)), size)
             ELSE Fill(Tail(sentences), currentChunk \o sentence \o <<Space>>, out, size)

splitIntoChunks(text, size) ==
    LET matched == Match(text)
        sentences == IF matched = <<>> THEN <<text>> ELSE matched
    IN  Fill(sentences, <<>>, <<>>, size)

InitSplit ==
    /\ prog = "splitIntoChunks"
    /\ IdleNorm
    /\ IdleCrawler
    /\ IdleRec
    /\ IdleTools
    /\ IdleIndex
    /\ IdleData
    /\ IdleQdrant
    /\ IdleInst
    /\ IdleSess
    /\ IdlePage
    /\ sText \in SplitTexts
    /\ sChunks = <<>>
    /\ spc = "called"

\* indexDocuments: const chunks = this.splitIntoChunks(document.content)
SplitCall ==
    /\ prog = "splitIntoChunks"
    /\ spc = "called"
    /\ sChunks' = splitIntoChunks(sText, maxChunkSize)
    /\ spc' = "returned"
    /\ UNCHANGED <<prog, normVars, crawlerVars, recVars, toolVars, idxVars, dataVars, sessVars, pageVars, qdrantVars,
                   instVars, sText>>

SpecSplit == InitSplit /\ [][SplitCall]_vars

\* ------------------ program 11: the browser and the pages of WebsiteCrawler
MaxTasks == 4       \* most processUrl tasks of a crawl

Tasks == 1..MaxTasks

NoTask == [pc |-> "absent", depth |-> 0]

\* the tasks the queue has started and that have not settled
Running == {t \in Tasks : tasks[t].pc \in {"initBrowser", "newPage", "goto", "close", "savePage"}}

InitPages ==
    /\ prog = "processPage"
    /\ IdleNorm
    /\ IdleCrawler
    /\ IdleRec
    /\ IdleTools
    /\ IdleIndex
    /\ IdleData
    /\ IdleQdrant
    /\ IdleInst
    /\ IdleSplit
    /\ IdleSess
    /\ browser = "null"
    /\ openPages = {}
    /\ tasks = [t \in Tasks |-> IF t = 1 THEN [pc |-> "queued", depth |-> 0] ELSE NoTask]
    /\ pJob = [status |-> "running", pagesProcessed |-> 0]

\* the queue starts a task while fewer than concurrency tasks run
StartProcessUrl(t) ==
    /\ prog = "processPage"
    /\ tasks[t].pc = "queued"
    /\ Cardinality(Running) < concurrency
    /\ tasks' = [tasks EXCEPT ![t].pc = "initBrowser"]
    /\ UNCHANGED <<prog, normVars, crawlerVars, recVars, toolVars, idxVars, dataVars, qdrantVars,
                   instVars, splitVars, sessVars, browser, openPages, pJob>>

\* await this.initBrowser(): puppeteer.launch when there is no browser yet;
\* a launch that fails is caught by processPage, which returns null
initBrowser(t, ok) ==
    /\ prog = "processPage"
    /\ tasks[t].pc = "initBrowser"
    /\ IF browser # "null"
       THEN ok /\ tasks' = [tasks EXCEPT ![t].pc = "newPage"] /\ UNCHANGED browser
       ELSE IF ok
            THEN browser' = "launched" /\ tasks' = [tasks EXCEPT ![t].pc = "newPage"]
            ELSE tasks' = [tasks EXCEPT ![t].pc = "failed"] /\ UNCHANGED browser
    /\ UNCHANGED <<prog, normVars, crawlerVars, recVars, toolVars, idxVars, dataVars, qdrantVars,
                   instVars, splitVars, sessVars, openPages, pJob>>

\* const page = await this.browser!.newPage()
NewPage(t, ok) ==
    /\ prog = "processPage"
    /\ tasks[t].pc = "newPage"
    /\ IF ok
       THEN openPages' = openPages \cup {t} /\ tasks' = [tasks EXCEPT ![t].pc = "goto"]
       ELSE tasks' = [tasks EXCEPT ![t].pc = "failed"] /\ UNCHANGED openPages
    /\ UNCHANGED <<prog, normVars, crawlerVars, recVars, toolVars, idxVars, dataVars, qdrantVars,
                   instVars, splitVars, sessVars, browser, pJob>>

\* page.goto and the page.evaluate calls; when one of them throws, the catch
\* of processPage records the error and returns null
GotoAndEvaluate(t, ok) ==
    /\ prog = "processPage"
    /\ tasks[t].pc = "goto"
    /\ tasks' = [tasks EXCEPT ![t].pc = IF ok THEN "close" ELSE "failed"]
    /\ UNCHANGED <<prog, normVars, crawlerVars, recVars, toolVars, idxVars, dataVars, qdrantVars,
                   instVars, splitVars, sessVars, browser, openPages, pJob>>

\* await page.close(), and the return of the PageResult
ClosePage(t) ==
    /\ prog = "processPage"
    /\ tasks[t].pc = "close"
    /\ openPages' = openPages \ {t}
    /\ tasks' = [tasks EXCEPT ![t].pc = "savePage"]
    /\ UNCHANGED <<prog, normVars, crawlerVars, recVars, toolVars, idxVars, dataVars, qdrantVars,
                   instVars, splitVars, sessVars, browser, pJob>>

\* processUrl after processPage returned a result: savePage,
\* pagesProcessed++, and below MAX_DEPTH a task for every new link
SaveResult(t, links) ==
    /\ prog = "processPage"
    /\ tasks[t].pc = "savePage"
    /\ \A l \in links : tasks[l].pc = "absent"
    /\ tasks[t].depth >= MAX_DEPTH => links = {}
    /\ pJob' = [pJob EXCEPT !.pagesProcessed = @ + 1]
    /\ tasks' = [u \in Tasks |->
                    IF u = t THEN [tasks[t] EXCEPT !.pc = "done"]
                    ELSE IF u \in links THEN [pc |-> "queued", depth |-> tasks[t].depth + 1]
                    ELSE tasks[u]]
    /\ UNCHANGED <<prog, normVars, crawlerVars, recVars, toolVars, idxVars, dataVars, qdrantVars,
                   instVars, splitVars, sessVars, browser, openPages>>

\* crawl() after await this.queue.onIdle(): the terminal status of the job
OnIdle ==
    /\ prog = "processPage"
    /\ pJob.status = "running"
    /\ \A t \in Tasks : tasks[t].pc \in {"absent", "done", "failed"}
    /\ pJob' = [pJob EXCEPT !.status = IF pJob.pagesProcessed = 0 THEN "failed"
                                       ELSE "completed"]
    /\ UNCHANGED <<prog, normVars, crawlerVars, recVars, toolVars, idxVars, dataVars, qdrantVars,
                   instVars, splitVars, sessVars, browser, openPages, tasks>>

NextPages ==
    \/ \E t \in Tasks : StartProcessUrl(t)
    \/ \E t \in Tasks, ok \in BOOLEAN : initBrowser(t, ok)
    \/ \E t \in Tasks, ok \in BOOLEAN : NewPage(t, ok)
    \/ \E t \in Tasks, ok \in BOOLEAN : GotoAndEvaluate(t, ok)
    \/ \E t \in Tasks : ClosePage(t)
    \/ \E t \in Tasks, links \in SUBSET Tasks : SaveResult(t, links)
    \/ OnIdle

SpecPages == InitPages /\ [][NextPages]_vars

\* ================================================================ properties
\* what page.goto(url) requests: the parsed url, which has no fragment here
Target(url) == LET u == ParseAbs(url) IN u.host \o u.path

RECURSIVE BagTotal(_)
BagTotal(b) ==
    IF DOMAIN b = {} THEN 0
    ELSE LET c == CHOOSE c \in DOMAIN b : TRUE
         IN  b[c] + BagTotal([d \in DOMAIN b \ {c} |-> b[d]])

Terminal == {"completed", "failed"}

\* C1: within one crawl job of WebsiteCrawler no URL is fetched twice:
\* processPage is called at most once for each URL, whatever the link graph
\* and the interleaving of the two workers.
C1_NoUrlFetchedTwice ==
    \A c1, c2 \in DOMAIN fetchLog :
        /\ fetchLog[c1] = 1
        /\ Target(c1.url) = Target(c2.url) => c1 = c2

\* C2: the number of URLs attempted by crawlWebsite / crawlRecursive, failed
\* attempts included, never exceeds the page cap maxPages.
C2_AttemptsWithinCap == prog = "crawlWebsite" => BagTotal(rLog) <= maxPages

\* C3: no URL is fetched at a depth greater than the maximum depth, the base
\* URL being depth 0 and a link being one deeper than the page that carries
\* it; with maximum depth 0 only the base URL is crawled.
C3_DepthCap ==
    /\ \A c \in DOMAIN fetchLog :
          /\ c.depth <= MAX_DEPTH
          /\ c.depth = 0 => c.url = normalizeUrl(baseUrl, ParseAbs(baseUrl))
    /\ \A c \in DOMAIN rLog :
          /\ c.depth <= maxDepth
          /\ c.depth = 0 => c.url = startUrl
    /\ (prog = "crawlWebsite" /\ maxDepth = 0) =>
          /\ DOMAIN rLog \subseteq {[url |-> startUrl, depth |-> 0]}
          /\ BagTotal(rLog) <= 1
          /\ rpc = "returned" /\ pagesCrawled > 0 => BagTotal(rLog) = 1

\* a crawl with maximum depth 0 whose start page carried links, all refused
C3_Witness ==
    /\ prog = "crawlWebsite"
    /\ maxDepth = 0
    /\ rpc = "returned"
    /\ pagesCrawled = 1
    /\ rSkipped # {}

\* C4: normalizeUrl is idempotent: normalizing a non-empty result of
\* normalizeUrl again gives the same string.
C4_NormalizeIdempotent == (nPc = 2 /\ nOut[1] # <<>>) => nOut[2] = nOut[1]

\* C5: WebsiteCrawler never adds to the visited set, nor fetches, a URL whose
\* origin differs from the origin of the base URL.
C5_SameOriginOnly ==
    prog = "WebsiteCrawler" =>
        \A url \in visited \cup {c.url : c \in DOMAIN fetchLog} :
            Origin(ParseAbs(url)) = Origin(ParseAbs(baseUrl))

\* C6: the job leaves "running" only when the queue has drained, for
\* "completed" exactly when at least one page was processed and for "failed"
\* exactly when none was; it is never terminal while a page is queued or in
\* flight.
C6_TerminalStatus ==
    /\ [](prog = "WebsiteCrawler" =>
            /\ job.status \in Terminal => queue = <<>> /\ pending = {}
            /\ job.status = "completed" => job.pagesProcessed >= 1
            /\ job.status = "failed" => job.pagesProcessed = 0
            /\ cpc = "returned" <=> job.status \in Terminal)
    /\ [][(job.status = "running" /\ job'.status # "running") =>
            /\ queue = <<>> /\ pending = {}
            /\ job'.status = "completed" <=> job.pagesProcessed >= 1
            /\ job'.status = "failed" <=> job.pagesProcessed = 0]_vars

\* a job that completed although some page failed
C6_Witness == job.status = "completed" /\ Len(job.errors) > 0

\* C7: a failure on one URL is appended to the job's errors, leaves
\* pagesProcessed alone, keeps the job running and the queued URLs on their
\* way; the failed URL is not fetched again in the job.
C7_FailureIsolated ==
    /\ [][\A t \in pending : ProcessPageFail(t) =>
            /\ job'.errors = Append(job.errors, <<"Failed to process", t.url>>)
            /\ job'.pagesProcessed = job.pagesProcessed
            /\ job'.status = "running"
            /\ \A i \in 1..Len(queue) :
                  \/ \E j \in 1..Len(queue') : queue'[j] = queue[i]
                  \/ normalizeUrl(queue[i].url, ParseAbs(baseUrl)) \in visited']_vars
    /\ [][\A c \in DOMAIN fetchLog' :
            (c \notin DOMAIN fetchLog \/ fetchLog'[c] > fetchLog[c]) =>
                \A i \in 1..Len(job'.errors) :
                    job'.errors[i][1] = "Failed to process" =>
                        Target(job'.errors[i][2]) # Target(c.url)]_vars

\* C8: once the status of the job is completed or failed, the job record
\* (status, pagesProcessed, errors) never changes.
C8_TerminalJobFrozen == [][job.status \in Terminal => job' = job]_vars

\* crawl() has returned with a terminal job that counted pages and errors
C8_Witness ==
    /\ cpc = "returned"
    /\ job.status \in Terminal
    /\ job.pagesProcessed >= 2
    /\ Len(job.errors) >= 2

\* C9: pagesProcessed never exceeds the number of PageResults stored, and
\* when the job ends there is one stored PageResult for each page counted.
C9_SavedBeforeCounted ==
    prog = "WebsiteCrawler" =>
        /\ job.pagesProcessed <= Cardinality(DOMAIN files)
        /\ cpc = "returned" => Cardinality(DOMAIN files) = job.pagesProcessed

\* C10: at most concurrency = 2 pages are in process at any moment, and a URL
\* waits in the queue only while both slots are taken.
C10_BoundedPool ==
    /\ Cardinality(pending) <= concurrency
    /\ queue # <<>> => Cardinality(pending) = concurrency

\* both workers busy and a discovered URL waiting
C10_Witness == Len(queue) >= 1 /\ Cardinality(pending) = 2

\* C11: whatever the links of the pages and whichever pages fail, crawl()
\* eventually drains its queue and the job reaches completed or failed, when
\* every ready continuation is eventually run.
C11_CrawlTerminates ==
    <>[](/\ cpc = "returned"
         /\ queue = <<>>
         /\ pending = {}
         /\ job.status \in Terminal)

\* crawl() returned after a URL had waited in the queue and a page had failed
C11_Witness ==
    /\ cpc = "returned"
    /\ job.status \in Terminal
    /\ BagTotal(fetchLog) >= 3
    /\ \E i \in 1..Len(job.errors) : job.errors[i][1] = "Failed to process"

\* ---------------------------------------------- properties of the handlers
Max(S) == CHOOSE x \in S : \A y \in S : y <= x

NoDuplicateUrl(results) ==
    \A i, j \in 1..Len(results) : results[i].url = results[j].url => i = j

\* the entries of an output as (url, content, relevance)
Entries(results) ==
    {[url |-> results[i].url, content |-> results[i].content,
      relevance |-> results[i].relevance] : i \in 1..Len(results)}

\* the places of url in the results gathered by the loop of
\* handleSearchExistingData, after the url filter
Occurrences(url) ==
    {k \in 1..Len(allResults) :
        /\ allResults[k].url = url
        /\ hArgs.url # <<>> => StartsWith(allResults[k].url, hArgs.url)}

\* the queries whose results, after the url filter, hold url
QueriesReturning(url) ==
    {q \in Range(hArgs.queries) :
        \E r \in Range(search(q, hArgs.limit, <<>>)) :
            /\ r.url = url
            /\ hArgs.url # <<>> => StartsWith(r.url, hArgs.url)}

Permuted(queries, p) == [i \in 1..Len(queries) |-> queries[p[i]]]

InvalidWebsiteArgs == hArgs.url = <<>> \/ Len(hArgs.queries) < 3

\* C12: handleSearchExistingData with the url of a site that was never
\* crawled fails with InvalidParams and a message that holds 'has not been
\* crawled yet': it returns no list and no error of another kind.
C12_NotCrawledIsInvalidParams ==
    (/\ prog = "handleSearchExistingData"
     /\ hArgs.queries # <<>>
     /\ hArgs.url # <<>> /\ hArgs.url \notin websiteDirs
     /\ hpc # "called")
    => /\ hOut.kind = "error"
       /\ hOut.code = "InvalidParams"
       /\ "has not been crawled yet" \in Range(hOut.message)

\* C13: handleSearchWebsite fails because of the crawl only when the job
\* ended with zero pages processed; after a crawl with at least one page and
\* recorded errors it writes the metadata, indexes and returns results.
C13_PartialCrawlGoesOn ==
    (/\ prog = "handleSearchWebsite"
     /\ crawlJobs # <<>>
     /\ crawlJobs[Len(crawlJobs)].status \in Terminal)
    => LET crawlJob == crawlJobs[Len(crawlJobs)]
       IN  /\ hOut.kind = "error" => crawlJob.pagesProcessed = 0
           /\ (crawlJob.pagesProcessed >= 1 /\ hpc \in {"search", "returned"})
              => (metadata # {} /\ hArgs.url \in indexed)

\* C14: handleSearchWebsite without a url or with fewer than 3 queries, and
\* handleSearchExistingData without a query, fail with InvalidParams before
\* any work: no directory made, no crawl job, nothing indexed, no search.
C14_InvalidArgsNoWork ==
    (/\ hpc # "called"
     /\ \/ prog = "handleSearchWebsite" /\ InvalidWebsiteArgs
        \/ prog = "handleSearchExistingData" /\ hArgs.queries = <<>>)
    => /\ hOut.kind = "error" /\ hOut.code = "InvalidParams"
       /\ mkdirs = {} /\ crawlJobs = <<>> /\ metadata = {} /\ indexed = {}
       /\ searches = <<>> /\ allResults = <<>>

\* handleSearchWebsite has thrown for two queries and a url
C14_Witness ==
    /\ prog = "handleSearchWebsite" /\ hpc = "thrown"
    /\ hArgs.url = SiteUrl /\ Len(hArgs.queries) = 2

\* C15: the output of handleSearchExistingData never holds two entries with
\* the same url.
C15_ExistingNoDuplicateUrl ==
    (prog = "handleSearchExistingData" /\ hOut.kind = "result")
    => NoDuplicateUrl(hOut.results)

\* two entries returned, one of a url that two queries returned
C15_Witness ==
    /\ prog = "handleSearchExistingData" /\ hOut.kind = "result"
    /\ Len(hOut.results) = 2
    /\ \E i \in 1..2 : Len(hOut.results[i].matchedQueries) = 2

\* C16: the output of handleSearchWebsite never holds two entries with the
\* same url, also when one query returns several chunks of one page.
C16_WebsiteNoDuplicateUrl ==
    (prog = "handleSearchWebsite" /\ hOut.kind = "result")
    => NoDuplicateUrl(hOut.results)

\* C17: for a url that several queries returned, the relevance
\* handleSearchExistingData reports is the maximum, over the occurrences of
\* the url, of 1 - distance rounded to 4 places.
C17_ReportedRelevanceIsMax ==
    (prog = "handleSearchExistingData" /\ hOut.kind = "result")
    => \A i \in 1..Len(hOut.results) :
          LET at == Occurrences(hOut.results[i].url)
          IN  Cardinality({allResults[k].matchedQueries : k \in at}) >= 2
              => hOut.results[i].relevance = Max({allResults[k].relevance : k \in at})

\* C18: the output of handleSearchExistingData is in non-increasing order of
\* reported relevance and holds at most limit entries.
C18_SortedAndLimited ==
    (prog = "handleSearchExistingData" /\ hOut.kind = "result")
    => /\ Len(hOut.results) <= hArgs.limit
       /\ \A i, j \in 1..Len(hOut.results) :
             i < j => hOut.results[i].relevance >= hOut.results[j].relevance

\* C19: matchedQueries of an entry of handleSearchExistingData is the set of
\* queries whose results, after the url filter, held the url of the entry,
\* each query once.
C19_MatchedQueriesExact ==
    (prog = "handleSearchExistingData" /\ hOut.kind = "result")
    => \A i \in 1..Len(hOut.results) :
          LET matched == hOut.results[i].matchedQueries
          IN  /\ Range(matched) = QueriesReturning(hOut.results[i].url)
              /\ \A a, b \in 1..Len(matched) : matched[a] = matched[b] => a = b

\* a query given twice returned the url of an entry that does not match
\* every query
C19_Witness ==
    /\ prog = "handleSearchExistingData" /\ hOut.kind = "result"
    /\ \E a, b \in 1..Len(hArgs.queries) : a # b /\ hArgs.queries[a] = hArgs.queries[b]
    /\ \E i \in 1..Len(hOut.results) :
          /\ Len(hOut.results[i].matchedQueries) = 1
          /\ Cardinality(Occurrences(hOut.results[i].url)) >= 2
    /\ \E i \in 1..Len(hOut.results) : Len(hOut.results[i].matchedQueries) = 2

\* C20: the entries (url, content, relevance) both handlers return are the
\* same for every order of the queries.
C20_QueryOrderIndependent ==
    hOut.kind = "result"
    => \A p \in Permutations(1..Len(hArgs.queries)) :
          LET queries == Permuted(hArgs.queries, p)
          IN  /\ prog = "handleSearchExistingData"
                 => Entries(ExistingOutput(ExistingAllResults(queries, hArgs.limit),
                                           hArgs.url, hArgs.limit))
                    = Entries(hOut.results)
              /\ prog = "handleSearchWebsite"
                 => Entries(WebsiteOutput(WebsiteAllResults(queries, hArgs.url, hArgs.limit,
                                                            <<>>, {}),
                                          hArgs.url, queries, hArgs.limit))
                    = Entries(hOut.results)

\* C30: in handleSearchExistingData the entry kept for a url that several
\* queries returned is the occurrence with the highest relevance: its content
\* is the content of such an occurrence, not that of the occurrence met first.
C30_KeptOccurrenceIsBest ==
    (prog = "handleSearchExistingData" /\ hOut.kind = "result")
    => \A i \in 1..Len(hOut.results) :
          LET at == Occurrences(hOut.results[i].url)
              best == Max({allResults[k].relevance : k \in at})
          IN  Cardinality({allResults[k].matchedQueries : k \in at}) >= 2
              => \E k \in at : /\ allResults[k].relevance = best
                               /\ allResults[k].content = hOut.results[i].content

\* C24: search(query, limit, baseUrl) returns at most limit chunks in
\* non-decreasing order of distance, each under baseUrl when it is given; no
\* stored chunk under baseUrl that is left out is more similar than a
\* returned one, and chunks of equal similarity keep their stored order.
C24_SearchTopK ==
    \A n \in 1..Len(searches) :
       LET s == searches[n]
           results == search(s.query, s.limit, s.baseUrl)
           candidates == {i \in 1..Len(Chunks) :
                             s.baseUrl # <<>> => StartsWith(Chunks[i].url, s.baseUrl)}
           at(r) == CHOOSE i \in candidates :
                       Chunks[i].url = r.url /\ Chunks[i].content = r.content
           returned == {at(results[j]) : j \in 1..Len(results)}
       IN  /\ Len(results) <= s.limit
           /\ Len(results) = Min(s.limit, Cardinality(candidates))
           /\ \A j \in 1..Len(results) :
                 /\ \E i \in candidates :
                       /\ Chunks[i].url = results[j].url
                       /\ Chunks[i].content = results[j].content
                       /\ index[s.query][i] = results[j].distance
                 /\ s.baseUrl # <<>> => StartsWith(results[j].url, s.baseUrl)
           /\ \A j, k \in 1..Len(results) :
                 j < k => /\ results[j].distance <= results[k].distance
                          /\ results[j].distance = results[k].distance
                             => at(results[j]) < at(results[k])
           /\ \A i \in candidates \ returned : \A j \in returned :
                 /\ index[s.query][i] >= index[s.query][j]
                 /\ index[s.query][i] = index[s.query][j] => j < i

\* a search under a url left out a chunk as similar as one it returned
C24_Witness ==
    \E n \in 1..Len(searches) :
       LET s == searches[n]
           results == search(s.query, s.limit, s.baseUrl)
       IN  /\ s.baseUrl # <<>>
           /\ Len(results) = s.limit
           /\ \E i \in 1..Len(Chunks) :
                 /\ StartsWith(Chunks[i].url, s.baseUrl)
                 /\ \A j \in 1..Len(results) : Chunks[i].content # results[j].content
                 /\ index[s.query][i] = results[Len(results)].distance
           /\ \E j \in 1..Len(results) : results[j].distance < results[Len(results)].distance

\* ------------------------------------------- properties of indexDocuments
\* the chunks of url in an index (index file -> the chunks read from it)
ChunksOfUrl(read, url) ==
    UNION {{<<n, i>> : i \in {k \in 1..Len(read[n]) : read[n][k].url = url}} :
              n \in IndexNames}

StoredOfUrl(stored, url) ==
    ChunksOfUrl([n \in IndexNames |-> ReadChunks(stored[n])], url)

SourceUrls == {f.url : f \in SourceFiles}

\* the places of the directory dir whose document is the last one written to its
\* index file in a run
LastWriters(dir) ==
    {i \in 1..Len(dir) :
        /\ Parses(dir[i])
        /\ \A j \in (i + 1)..Len(dir) : Parses(dir[j]) => dir[j].name # dir[i].name}

RECURSIVE ChunksWritten(_)
ChunksWritten(dir) ==
    IF dir = <<>> THEN 0
    ELSE (IF Parses(Head(dir)) THEN Head(dir).chunks ELSE 0) + ChunksWritten(Tail(dir))

C22_AtomicReplace ==
    (prog = "indexDocuments" /\ observed.kind = "read")
    => \/ ChunksOfUrl(observed.files, observed.url)
          = ChunksOfUrl(observed.before, observed.url)
       \/ ChunksOfUrl(observed.files, observed.url)
          = ChunksOfUrl(observed.after, observed.url)

ChunkSetOfUrl(stored, url) ==
    {ReadChunks(stored[c[1]])[c[2]] : c \in StoredOfUrl(stored, url)}

\* C35: a run of indexDocuments on the pages of one website leaves the
\* stored chunks of the pages of another website as they were: after a run
\* on a site other than that of the run before, every page that was in the
\* index is still there with its own chunks.
C35_OtherSitesUntouched ==
    prog = "indexDocuments"
    => \A b \in 2..Len(runs) :
          runs[b].dir # runs[b - 1].dir
          => \A u \in {f.url : f \in Range(runs[b - 1].dir)} \ {<<>>} :
                ChunkSetOfUrl(runs[b].index, u) = ChunkSetOfUrl(runs[b - 1].index, u)

\* ------------------------------ properties of chunkMarkdownSlidingWindow
\* the words of the windows, with the first overlap words of every window
\* but the first left out
RECURSIVE Reconstruct(_)
Reconstruct(windows) ==
    IF windows = <<>> THEN <<>>
    ELSE LET last == Split(windows[Len(windows)])
         IN  IF Len(windows) = 1 THEN last
             ELSE Reconstruct(SubSeq(windows, 1, Len(windows) - 1))
                  \o SubSeq(last, overlap + 1, Len(last))

\* C26: for every text, the windows of chunkMarkdownSlidingWindow, joined
\* with the 65 words of overlap removed, are the word sequence of the text,
\* and the last window ends at the last word of the text.
C26_WindowsReconstruct ==
    (prog = "chunkMarkdownSlidingWindow" /\ dpc = "returned")
    => LET words == Split(markdown)
           last == Split(chunks[Len(chunks)])
       IN  /\ chunks # <<>>
           /\ Reconstruct(chunks) = words
           /\ last[Len(last)] = words[Len(words)]
           /\ \A k \in 1..(Len(chunks) - 1) :
                 LET w == Split(chunks[k])
                     next == Split(chunks[k + 1])
                 IN  /\ Len(next) > overlap
                     /\ SubSeq(w, Len(w) - overlap + 1, Len(w)) = SubSeq(next, 1, overlap)

\* three windows returned for a text that ends in whitespace
C26_Witness ==
    /\ prog = "chunkMarkdownSlidingWindow" /\ dpc = "returned"
    /\ Len(chunks) = 3
    /\ markdown[Len(markdown)] = Space

\* ------------------------------------ properties of computeCosineSimilarity
IsZeroVector(v) == \A i \in 1..Len(v) : v[i] = 0

One == [s |-> 1, m |-> Pow2(FloatBits - 1), e |-> 0 - (FloatBits - 1)]

\* x is sign * 1 but for at most ulps units of 2^-FloatBits
Near(x, sign, ulps) ==
    /\ x.s = sign
    /\ \/ x.e = 0 - (FloatBits - 1) /\ 2 * (x.m - Pow2(FloatBits - 1)) <= ulps
       \/ x.e = 0 - FloatBits /\ Pow2(FloatBits) - x.m <= ulps

NewCalls ==
    {c \in DOMAIN fetchLog' : c \notin DOMAIN fetchLog \/ fetchLog'[c] > fetchLog[c]}

\* C28: in WebsiteCrawler.crawl the test and the insert on visited act as a
\* test-and-set: whatever the interleaving of the workers, and for pages that
\* list a link several times, no URL is placed on the work queue more than
\* once.
C28_NoDuplicateInQueue ==
    prog = "WebsiteCrawler"
    => \A i, j \in 1..Len(queue) : queue[i].url = queue[j].url => i = j

\* C29: WebsiteCrawler.crawl takes up pages in breadth-first order: a URL
\* never starts at a depth below that of a URL started before, and a URL is
\* processed at its shortest link distance from the base URL, so that the
\* base URL is processed at depth 0 only and no URL at two depths.
C29_BreadthFirst ==
    [][prog = "WebsiteCrawler"
       => /\ \A c \in NewCalls : \A c0 \in DOMAIN fetchLog : c0.depth <= c.depth
          /\ \A c \in NewCalls :
                /\ Target(c.url) = Target(baseUrl) => c.depth = 0
                /\ \A c0 \in DOMAIN fetchLog :
                      Target(c0.url) = Target(c.url) => c0.depth = c.depth]_vars

\* ------------------------------------------- properties of the url filter
\* the urls of the stored chunks that start with base
UrlsUnder(base) ==
    {Chunks[i].url : i \in {k \in 1..Len(Chunks) : StartsWith(Chunks[k].url, base)}}

\* the highest relevance a query of the call gives a chunk of the url u
BestRelevance(u) ==
    Max({ToFixed4(100000 - index[q][i]) :
            q \in Range(hArgs.queries), i \in {k \in 1..Len(Chunks) : Chunks[k].url = u}})

\* C33: with a url filter, handleSearchExistingData returns what a search
\* restricted to that prefix returns: its entries are the limit urls of
\* highest relevance among the stored chunks whose url starts with the
\* filter, as many as there are up to limit, so that chunks of other sites
\* never reduce or empty the result.
C33_FilterIsPrefixSearch ==
    (prog = "handleSearchExistingData" /\ hOut.kind = "result" /\ hArgs.url # <<>>)
    => LET under == UrlsUnder(hArgs.url)
           got == {hOut.results[i].url : i \in 1..Len(hOut.results)}
       IN  /\ got \subseteq under
           /\ Cardinality(got) = Min(hArgs.limit, Cardinality(under))
           /\ \A u \in got, w \in under \ got : BestRelevance(u) >= BestRelevance(w)

\* ------------------------------------- properties of the recursive crawler
\* the urls within k links of the start url, by the links of the crawled pages
RECURSIVE Within(_)
Within(k) ==
    IF k = 0 THEN {startUrl}
    ELSE LET near == Within(k - 1)
         IN  near \cup UNION {rLinks[u] : u \in near \cap DOMAIN rLinks}

\* C37: when crawlWebsite / crawlRecursive ends, no page having failed and
\* the page cap not reached, every url whose shortest link distance from
\* the start url is at most maxDepth was crawled.
C37_CrawlsAllWithinDepth ==
    (/\ prog = "crawlWebsite" /\ rpc = "returned"
     /\ rLog # <<>> /\ BagTotal(rLog) = pagesCrawled
     /\ pagesCrawled < maxPages)
    => \A u \in Within(maxDepth) : \E c \in DOMAIN rLog : c.url = u

\* ---------------------------------- properties of saveChunksToQdrant
\* the points of the url in a collection
PointsOfUrl(points, url) == {id \in DOMAIN points : points[id].url = url}

\* a text without a word
IsBlank(str) == \A i \in 1..Len(str) : str[i] = Space

\* C31: a second call of saveChunksToQdrant for a url with the same content
\* replaces the chunks of the url: the stored identifier of a chunk comes
\* from the url and the ordinal of the chunk, so that the url has as many
\* points after the second call as after the first.
C31_SaveAgainReplaces ==
    (/\ prog = "saveChunksToQdrant" /\ Len(qLog) >= 2
     /\ qLog[1].upserted /\ qLog[2].upserted)
    => /\ Cardinality(PointsOfUrl(qLog[2].points, qArgs.url))
          = Cardinality(PointsOfUrl(qLog[1].points, qArgs.url))
       /\ \A id1, id2 \in DOMAIN qLog[2].points :
             qLog[2].points[id1].chunk_id = qLog[2].points[id2].chunk_id => id1 = id2

\* C32: for an empty text and for a text of whitespace only
\* chunkMarkdownSlidingWindow gives no chunk, so that crawlSingleUrl writes
\* no chunk file and saveChunksToQdrant builds and stores no point for the
\* page.
C32_BlankTextNoChunk ==
    (prog = "saveChunksToQdrant" /\ IsBlank(qArgs.markdown) /\ qpc \in {"upsert", "returned"})
    => /\ chunkMarkdownSlidingWindow(qArgs.markdown) = <<>>
       /\ qDisk = <<>>
       /\ qAllPoints = <<>>
       /\ PointsOfUrl(qPoints, qArgs.url) = {}

\* ------------------------------------------- properties of getInstance
\* C36: every caller that gets an IndexDatabase from getInstance gets an
\* initialized one, with the index directory made sure of and the OpenAI
\* client set, also when getInstance is called while the initialization
\* started by an earlier call is waiting.
C36_InstanceInitialized ==
    prog = "getInstance"
    => \A c \in Callers :
          callers[c].pc \in {"got", "embedding", "OpenAI client not initialized"}
          => callers[c].openai /\ callers[c].ensured

\* --------------------------------------- properties of splitIntoChunks
\* the letters of a text, in order
Letters(str) == SelectSeq(str, LAMBDA ch : ch > 0)

RECURSIVE Concat(_)
Concat(strs) == IF strs = <<>> THEN <<>> ELSE Head(strs) \o Concat(Tail(strs))

\* C39: splitIntoChunks loses no text: the chunks of a document that is not
\* empty, joined in order, hold every sentence and every fragment of the
\* text, the text after the last sentence terminator included; letter for
\* letter, the chunks hold what the text holds.
C39_NoTextLost ==
    (prog = "splitIntoChunks" /\ spc = "returned")
    => Letters(Concat(sChunks)) = Letters(sText)

\* ------------------------------------------- properties of a session
\* C34: a crawl that fails completely leaves nothing behind that makes the
\* site count as crawled: after a handleSearchWebsite call without
\* forceCrawl whose crawl failed completely, the next handleSearchWebsite
\* call without forceCrawl crawls again, and the next
\* handleSearchExistingData call with the url reports that the site has not
\* been crawled.
C34_FailedCrawlLeavesNothing ==
    (/\ Len(hLog) = 1
     /\ hLog[1].prog = "handleSearchWebsite"
     /\ ~hLog[1].args.forceCrawl
     /\ hLog[1].out = Caught([message |-> <<"Crawl failed completely">>])
     /\ hpc \in {"thrown", "returned"})
    => /\ (prog = "handleSearchWebsite" /\ ~hArgs.forceCrawl) => Len(crawlJobs) = 2
       /\ prog = "handleSearchExistingData"
            => hOut = Caught(Thrown("InvalidParams", <<"has not been crawled yet">>))

\* ------------------------------- properties of the browser and its pages
\* C38: every page processPage opens is closed when the processing of its
\* url ends, with or without a failure, and when the job has a terminal
\* status no page is open and the browser launched for the job is closed.
C38_PagesAndBrowserClosed ==
    prog = "processPage"
    => /\ \A t \in Tasks : tasks[t].pc \in {"done", "failed"} => t \notin openPages
       /\ pJob.status \in {"completed", "failed"}
            => openPages = {} /\ browser # "launched"

====
